---- MODULE Spec2Model ----
(***************************************************************************)
(* The conversation orchestration engine of the hiring assistant:          *)
(* ConversationManager.process_message and the handlers, validators,       *)
(* question generator and persistence it calls.  One step of the model is  *)
(* one call of process_message.                                            *)
(***************************************************************************)
EXTENDS Integers, Sequences, FiniteSets, TLC

VARIABLES
    state,                   \* self.state
    candidate_data,          \* self.candidate_data: field name -> stored text
    technical_responses,     \* self.technical_responses: index i (key "q_i") -> [question, answer]
    current_questions,       \* self.current_questions
    current_question_index,  \* self.current_question_index
    current_field_index,     \* self.current_field_index
    awaiting_field,          \* self.awaiting_field
    db,                      \* rows of the candidates table, in insertion order
    archive,                 \* lines of the JSONL archive, in append order
    user_input,              \* the utterance handed to the latest call
    result,                  \* what the latest call gave back: a (reply, finished) pair or an exception
    external,                \* what the verifiers and the generator called by the latest call did
    save_calls,              \* number of _save_candidate_data invocations so far
    db_calls,                \* number of DatabaseManager.save_candidate invocations so far
    save_args,               \* the arguments of the latest DatabaseManager.save_candidate invocation
    exit_calls,              \* number of calls dispatched to _handle_graceful_exit so far
    fault_calls,             \* number of saves so far that met a failing cipher or sink
    fetched,                 \* what the latest operation gave back if it was a get_candidate call
    tab,                     \* the browser session whose script run is under way
    conversation_ended,      \* st.session_state.conversation_ended of that browser session
    managers,                \* the attributes of the ConversationManager objects of the other browser sessions
    away,                    \* the script, pending utterances and conversation_ended of the other browser session
    boot,                    \* the ENCRYPTION_KEY setting and what became of ConversationManager()
    unit,                    \* the latest direct call of a helper, with what it was given and gave back
    script,                  \* the utterances a scripted respondent was given to send, <<>> for a free one
    pending                  \* the utterances of the script not sent yet

vars == <<state, candidate_data, technical_responses, current_questions,
          current_question_index, current_field_index, awaiting_field,
          db, archive, user_input, result, external, save_calls, db_calls, save_args,
          exit_calls, fault_calls, fetched, tab, conversation_ended,
          managers, away, boot, unit, script, pending>>

session == <<state, candidate_data, technical_responses, current_questions,
             current_question_index, current_field_index, awaiting_field>>

stores == <<db, archive, save_calls, db_calls, save_args>>

----------------------------------------------------------------------------
(* Bounds of the exploration. *)

\* exit-keyword calls explored per session
MaxExits == 2

\* saves per session that meet a failing cipher or sink
MaxFaults == 1

----------------------------------------------------------------------------
(* Text.  A Python str is named by a TLA+ string; Chars gives its          *)
(* characters, on which strip, lower, "in" and int are computed.           *)

Chars ==
    ("" :> <<>>) @@
    (" " :> <<" ">>) @@
    ("Answer Key" :> <<"A", "n", "s", "w", "e", "r", " ", "K", "e", "y">>) @@
    ("exit" :> <<"e", "x", "i", "t">>) @@
    ("Exit" :> <<"E", "x", "i", "t">>) @@
    ("Quit, reveal" :> <<"Q", "u", "i", "t", ",", " ", "r", "e", "v", "e", "a", "l">>) @@
    ("Backend Engineer" :> <<"B", "a", "c", "k", "e", "n", "d", " ", "E", "n", "g", "i", "n", "e", "e", "r">>) @@
    ("Austin" :> <<"A", "u", "s", "t", "i", "n">>) @@
    ("a@b.co" :> <<"a", "@", "b", ".", "c", "o">>) @@
    ("+14155552671" :> <<"+", "1", "4", "1", "5", "5", "5", "5", "2", "6", "7", "1">>) @@
    (" 7 " :> <<" ", "7", " ">>) @@
    ("7" :> <<"7">>) @@
    ("Jane Doe" :> <<"J", "a", "n", "e", " ", "D", "o", "e">>) @@
    ("jane@example.com" :> <<"j", "a", "n", "e", "@", "e", "x", "a", "m", "p", "l", "e", ".", "c", "o", "m">>) @@
    ("Austin, USA" :> <<"A", "u", "s", "t", "i", "n", ",", " ", "U", "S", "A">>) @@
    ("3" :> <<"3">>) @@
    ("0" :> <<"0">>) @@
    ("50" :> <<"5", "0">>) @@
    (" 50" :> <<" ", "5", "0">>) @@
    ("51" :> <<"5", "1">>) @@
    ("-1" :> <<"-", "1">>) @@
    ("3.5" :> <<"3", ".", "5">>) @@
    ("07" :> <<"0", "7">>) @@
    (" a@b.co " :> <<" ", "a", "@", "b", ".", "c", "o", " ">>) @@
    ("Python, PostgreSQL" :> <<"P", "y", "t", "h", "o", "n", ",", " ", "P", "o", "s", "t", "g", "r", "e", "S", "Q", "L">>) @@
    ("quit" :> <<"q", "u", "i", "t">>) @@
    ("bye" :> <<"b", "y", "e">>) @@
    ("goodbye" :> <<"g", "o", "o", "d", "b", "y", "e">>) @@
    ("stop" :> <<"s", "t", "o", "p">>) @@
    ("cancel" :> <<"c", "a", "n", "c", "e", "l">>) @@
    ("end" :> <<"e", "n", "d">>) @@
    ("reveal" :> <<"r", "e", "v", "e", "a", "l">>) @@
    ("answers" :> <<"a", "n", "s", "w", "e", "r", "s">>) @@
    ("answer key" :> <<"a", "n", "s", "w", "e", "r", " ", "k", "e", "y">>) @@
    ("solution" :> <<"s", "o", "l", "u", "t", "i", "o", "n">>) @@
    ("solutions" :> <<"s", "o", "l", "u", "t", "i", "o", "n", "s">>) @@
    ("show me the answers" :> <<"s", "h", "o", "w", " ", "m", "e", " ", "t", "h", "e", " ", "a", "n", "s", "w", "e", "r", "s">>) @@
    ("give me the answer" :> <<"g", "i", "v", "e", " ", "m", "e", " ", "t", "h", "e", " ", "a", "n", "s", "w", "e", "r">>) @@
    ("cheat" :> <<"c", "h", "e", "a", "t">>) @@
    ("key" :> <<"k", "e", "y">>)


LowerChar(c) ==
    CASE c = "A" -> "a"
      [] c = "B" -> "b"
      [] c = "C" -> "c"
      [] c = "D" -> "d"
      [] c = "E" -> "e"
      [] c = "F" -> "f"
      [] c = "G" -> "g"
      [] c = "H" -> "h"
      [] c = "I" -> "i"
      [] c = "J" -> "j"
      [] c = "K" -> "k"
      [] c = "L" -> "l"
      [] c = "M" -> "m"
      [] c = "N" -> "n"
      [] c = "O" -> "o"
      [] c = "P" -> "p"
      [] c = "Q" -> "q"
      [] c = "R" -> "r"
      [] c = "S" -> "s"
      [] c = "T" -> "t"
      [] c = "U" -> "u"
      [] c = "V" -> "v"
      [] c = "W" -> "w"
      [] c = "X" -> "x"
      [] c = "Y" -> "y"
      [] c = "Z" -> "z"
      [] OTHER -> c

Text == DOMAIN Chars

\* the str with the given characters
FromChars(cs) == CHOOSE s \in Text : Chars[s] = cs

IsSpace(c) == c = " "

\* str.lower()
Lower(cs) == [i \in 1..Len(cs) |-> LowerChar(cs[i])]

\* str.strip() on characters
StripChars(cs) ==
    LET keep == {i \in 1..Len(cs) : ~IsSpace(cs[i])}
    IN  IF keep = {} THEN <<>>
        ELSE LET lo == CHOOSE i \in keep : \A j \in keep : i <= j
                 hi == CHOOSE i \in keep : \A j \in keep : j <= i
             IN  SubSeq(cs, lo, hi)

\* a strip that removes nothing
StripNothing(s) == s

\* value.strip(), tabulated over Text
StripTable == [s \in Text |-> FromChars(StripChars(Chars[s]))]

Strip(s) == StripTable[s]

\* k in s, on characters
ContainsChars(cs, k) ==
    \E i \in 1..(Len(cs) - Len(k) + 1) : SubSeq(cs, i, i + Len(k) - 1) = k

Digits == {"0", "1", "2", "3", "4", "5", "6", "7", "8", "9"}

DigitVal(c) ==
    CASE c = "0" -> 0 [] c = "1" -> 1 [] c = "2" -> 2 [] c = "3" -> 3 [] c = "4" -> 4
      [] c = "5" -> 5 [] c = "6" -> 6 [] c = "7" -> 7 [] c = "8" -> 8 [] c = "9" -> 9

DigitChar(d) == CHOOSE c \in Digits : DigitVal(c) = d

\* Python integers are unbounded; every value from IntCap on is kept as IntCap
IntCap == 1000000

RECURSIVE DigitsVal(_)
DigitsVal(ds) ==
    IF ds = <<>> THEN 0
    ELSE LET high == DigitsVal(SubSeq(ds, 1, Len(ds) - 1))
         IN  IF high >= IntCap THEN IntCap ELSE 10 * high + DigitVal(ds[Len(ds)])

\* int(value) on characters: surrounding whitespace dropped, an optional
\* sign, then decimal digits; anything else is a ValueError (ok = FALSE)
ParseChars(chars) ==
    LET cs     == StripChars(chars)
        signed == cs # <<>> /\ cs[1] \in {"+", "-"}
        ds     == IF signed THEN Tail(cs) ELSE cs
    IN  IF ds # <<>> /\ \A i \in 1..Len(ds) : ds[i] \in Digits
        THEN [ok |-> TRUE,
              n  |-> IF signed /\ cs[1] = "-" THEN 0 - DigitsVal(ds) ELSE DigitsVal(ds)]
        ELSE [ok |-> FALSE, n |-> 0]

\* int(value), tabulated over Text
IntTable == [s \in Text |-> ParseChars(Chars[s])]

ParseInt(s) == IntTable[s]

RECURSIVE NatChars(_)
NatChars(n) ==
    IF n < 10 THEN <<DigitChar(n)>>
    ELSE Append(NatChars(n \div 10), DigitChar(n % 10))

\* str(years)
IntToText(n) ==
    FromChars(IF n < 0 THEN <<"-">> \o NatChars(0 - n) ELSE NatChars(n))

----------------------------------------------------------------------------
(* ConversationState, the lexicons and the field order. *)

GREETING == "greeting"
COLLECTING_INFO == "collecting_info"
TECH_TRANSITION == "tech_transition"
TECHNICAL_QUESTIONS == "technical_questions"
ENDED == "ended"
CLOSED == "closed"

States == {GREETING, COLLECTING_INFO, TECH_TRANSITION, TECHNICAL_QUESTIONS, ENDED, CLOSED}

EXIT_KEYWORDS == {"quit", "exit", "bye", "goodbye", "stop", "cancel", "end"}

reveal_terms ==
    {"reveal", "answers", "answer key", "solution", "solutions",
     "show me the answers", "give me the answer", "cheat", "key"}

\* an eighth field asked for after tech_stack
info_fields_extended ==
    <<"name", "email", "phone_number", "current_location",
      "experience_years", "desired_positions", "tech_stack", "notice_period">>

info_fields ==
    <<"name", "email", "phone_number", "current_location",
      "experience_years", "desired_positions", "tech_stack">>

\* self.info_fields[i], Python's 0-based index
FieldAt(i) == info_fields[i + 1]

\* awaiting_field = None
None == "None"

\* the bounds of experience_years
MinYears == 0
\* the upper bound taken as exclusive
MaxYearsExclusive == 50 - 1
MaxYears == 50

\* the number of questions the generator accepts
MinQuestions == 3
MaxQuestions == 5

\* dict.get(key, default)
Get(d, k, default) == IF k \in DOMAIN d THEN d[k] ELSE default

\* d = {k: v}: the dict replaced instead of updated
PutFresh(d, k, v) == (k :> v)

\* d[k] = v
Put(d, k, v) == (k :> v) @@ d

----------------------------------------------------------------------------
(* Safety / fallback checks. *)

\* any(k in lower for k in keywords), on characters
AnyIn(keywords, cs) ==
    LET lower == Lower(cs)
    IN  \E k \in keywords : ContainsChars(lower, Chars[k])

ExitTable == [u \in Text |-> u # "" /\ AnyIn(EXIT_KEYWORDS, Chars[u])]

RevealTable == [u \in Text |-> u # "" /\ AnyIn(reveal_terms, Chars[u])]

\* the keywords compared without lowering the input
is_exit_keyword_case_sensitive(u) ==
    u # "" /\ \E k \in EXIT_KEYWORDS : ContainsChars(Chars[u], Chars[k])

is_exit_keyword(u) == ExitTable[u]

\* the reveal terms compared without lowering the input
is_reveal_request_case_sensitive(u) ==
    u # "" /\ \E t \in reveal_terms : ContainsChars(Chars[u], Chars[t])

is_reveal_request(u) == RevealTable[u]

is_unwanted_behavior(u) == u = "" \/ Strip(u) = ""

----------------------------------------------------------------------------
(* The completion service, as _get_ai_response sees it. *)

APOLOGY == "apology"

\* the reply text: the service's answer to the prompt, or the fixed apology
\* when the completion call raises
get_ai_response(prompt, ai_up) == IF ai_up THEN prompt ELSE APOLOGY

\* what a process_message call gives back
Returned(reply, finished) == [kind |-> "returned", reply |-> reply, finished |-> finished]
Raised == [kind |-> "raised", reply |-> <<>>, finished |-> FALSE]
NoCall == [kind |-> "none", reply |-> <<>>, finished |-> FALSE]

----------------------------------------------------------------------------
(* Field verification (utils/data_validator.py).  The verifiers are        *)
(* external: email_validator with a DNS deliverability check, the offline  *)
(* phonenumbers tables, and the Nominatim geocoder over HTTP.              *)

\* ev_validate(email, check_deliverability=True): the address has one "@",
\* a non-empty local part and a dotted domain, and DNS finds the domain
\* deliverable; EmailNotValidError otherwise, which is caught
EmailSyntax(cs) ==
    LET ats == {i \in 1..Len(cs) : cs[i] = "@"}
    IN  /\ Cardinality(ats) = 1
        /\ LET at == CHOOSE i \in ats : TRUE
           IN  /\ at > 1
               /\ \E j \in (at + 2)..(Len(cs) - 1) : cs[j] = "."
               /\ \A j \in 1..Len(cs) : ~IsSpace(cs[j])

EmailTable == [s \in Text |-> EmailSyntax(Chars[s])]

\* the deliverability verdict ignored
validate_email_syntax_only(email, dns_ok) == EmailTable[email]

validate_email(email, dns_ok) == EmailTable[email] /\ dns_ok

\* phonenumbers.parse(phone, None) needs the international "+" form;
\* is_valid_number then wants a plausible national number
PhoneSyntax(cs) ==
    /\ Len(cs) >= 9 /\ Len(cs) <= 16
    /\ cs[1] = "+"
    /\ \A i \in 2..Len(cs) : cs[i] \in Digits
    /\ cs[2] # "0"

PhoneTable == [s \in Text |-> PhoneSyntax(Chars[s])]

validate_phone(phone) == PhoneTable[phone]

\* the places the geocoder knows
KnownPlaces == {"Austin", "Austin, USA"}

\* len(data) >= 0 for len(data) > 0: an empty result list accepted
validate_location_any(location, net_up) ==
    IF ~net_up THEN [raised |-> TRUE, valid |-> FALSE]
    ELSE [raised |-> FALSE, valid |-> TRUE]

\* requests.get(...).json(): the result list, or an exception when the
\* request or the decoding fails; nothing here catches it
validate_location(location, net_up) ==
    IF ~net_up THEN [raised |-> TRUE, valid |-> FALSE]
    ELSE [raised |-> FALSE, valid |-> location \in KnownPlaces]

----------------------------------------------------------------------------
(* Utilities: validation and storing. *)

Stored(data) == [kind |-> "stored", data |-> data]
Rejected == [kind |-> "rejected", data |-> candidate_data]
Faulted == [kind |-> "raised", data |-> candidate_data]

\* _validate_and_store_field: the outcome and the candidate_data it leaves
validate_and_store_field(field_name, raw, dns_ok, net_up) ==
    LET value == Strip(raw)
    IN  CASE field_name = "email" ->
               IF ~validate_email(value, dns_ok) THEN Rejected
               ELSE Stored(Put(candidate_data, field_name, value))
          [] field_name = "phone_number" ->
               IF ~validate_phone(value) THEN Rejected
               ELSE Stored(Put(candidate_data, field_name, value))
          [] field_name = "current_location" ->
               LET r == validate_location(value, net_up)
               IN  IF r.raised THEN Faulted
                   ELSE IF ~r.valid THEN Rejected
                   ELSE Stored(Put(candidate_data, field_name, value))
          [] field_name = "experience_years" ->
               LET years == ParseInt(value)
               IN  IF ~years.ok THEN Rejected
                   ELSE IF ~(MinYears <= years.n /\ years.n <= MaxYears) THEN Rejected
                   ELSE Stored(Put(candidate_data, field_name, IntToText(years.n)))
          [] OTHER ->
               IF value = "" THEN Rejected
               ELSE Stored(Put(candidate_data, field_name, value))

----------------------------------------------------------------------------
(* Question generation. *)

QText == <<"Q1", "Q2", "Q3", "Q4", "Q5", "Q6">>

StrItem(s) == [is_str |-> TRUE, s |-> s]
NumItem == [is_str |-> FALSE, s |-> "0"]

\* replies of the completion service to the generation prompt
ServiceFault == [fault |-> TRUE, is_json |-> FALSE, is_list |-> FALSE, items |-> <<>>]
NotJson == [fault |-> FALSE, is_json |-> FALSE, is_list |-> FALSE, items |-> <<>>]
JsonObject == [fault |-> FALSE, is_json |-> TRUE, is_list |-> FALSE, items |-> <<>>]
JsonList(items) == [fault |-> FALSE, is_json |-> TRUE, is_list |-> TRUE, items |-> items]
QuestionList(n) == JsonList([i \in 1..n |-> StrItem(QText[i])])

GenRaised == [ok |-> FALSE, questions |-> <<>>]

\* _generate_technical_questions: the list, or an exception (ok = FALSE)
generate_technical_questions(gen) ==
    IF gen.fault THEN GenRaised
    ELSE IF ~gen.is_json THEN GenRaised
    ELSE IF gen.is_list /\ \A i \in 1..Len(gen.items) : gen.items[i].is_str
         THEN IF MinQuestions <= Len(gen.items) /\ Len(gen.items) <= MaxQuestions
              THEN [ok |-> TRUE, questions |-> [i \in 1..Len(gen.items) |-> gen.items[i].s]]
              ELSE GenRaised
    ELSE GenRaised

----------------------------------------------------------------------------
(* Encryption (security/encryption_handler.py) and the primary store       *)
(* (database/database_manager.py).                                         *)

\* what a text column holds: a ciphertext token of a plaintext, or a
\* cleartext; the empty string is the empty cleartext
Token(text) == [ct |-> TRUE, text |-> text]
Clear(text) == [ct |-> FALSE, text |-> text]
EmptyToken == Clear("")

\* json.dumps and json.loads of a dict of strings
json_dumps(value) == [json |-> value]
json_loads(blob) == blob.json

\* EncryptionManager.encrypt: "" for an empty text without touching the
\* cipher; otherwise the token, or an exception (raised) when the cipher fails
encrypt(text, enc_up) ==
    IF text = "" THEN [raised |-> FALSE, token |-> EmptyToken]
    ELSE IF ~enc_up THEN [raised |-> TRUE, token |-> EmptyToken]
    ELSE [raised |-> FALSE, token |-> Token(text)]

\* a cell whose stored bytes were altered: no token of any plaintext
Garbled == [ct |-> TRUE, text |-> ""]

\* the token taken apart without authenticating it
decrypt_unauthenticated(cell, key_ok) == [raised |-> FALSE, text |-> cell.text]

\* EncryptionManager.decrypt: "" for the empty string; the plaintext of a
\* token written under the reader's key; ValueError (raised) for anything
\* else, on InvalidToken
decrypt(cell, key_ok) ==
    IF cell = EmptyToken THEN [raised |-> FALSE, text |-> ""]
    ELSE IF cell.ct /\ cell # Garbled /\ key_ok THEN [raised |-> FALSE, text |-> cell.text]
    ELSE [raised |-> TRUE, text |-> ""]

SensitiveFields == {"phone_number", "email", "current_location"}

\* the e-mail address written as it came
save_candidate_plain_email(data, responses, enc_up, db_up) ==
    LET phone    == encrypt(Get(data, "phone_number", ""), enc_up)
        location == encrypt(Get(data, "current_location", ""), enc_up)
        row == [name                     |-> Clear(Get(data, "name", "")),
                phone_number             |-> phone.token,
                email                    |-> Clear(Get(data, "email", "")),
                current_location         |-> location.token,
                experience_years         |-> IF "experience_years" \in DOMAIN data
                                             THEN ParseInt(data["experience_years"]).n
                                             ELSE 0,
                desired_positions        |-> Clear(Get(data, "desired_positions", "")),
                tech_stack               |-> Clear(Get(data, "tech_stack", "")),
                technical_responses_json |-> json_dumps(responses)]
    IN  IF phone.raised \/ location.raised \/ ~db_up
        THEN [raised |-> TRUE, row |-> row]
        ELSE [raised |-> FALSE, row |-> row]

\* every text column encrypted
save_candidate_encrypt_all(data, responses, enc_up, db_up) ==
    LET cell(f) == encrypt(Get(data, f, ""), enc_up)
        row == [name                     |-> cell("name").token,
                phone_number             |-> cell("phone_number").token,
                email                    |-> cell("email").token,
                current_location         |-> cell("current_location").token,
                experience_years         |-> IF "experience_years" \in DOMAIN data
                                             THEN ParseInt(data["experience_years"]).n
                                             ELSE 0,
                desired_positions        |-> cell("desired_positions").token,
                tech_stack               |-> cell("tech_stack").token,
                technical_responses_json |-> json_dumps(responses)]
    IN  IF (\E f \in DOMAIN data \ {"experience_years"} : cell(f).raised) \/ ~db_up
        THEN [raised |-> TRUE, row |-> row]
        ELSE [raised |-> FALSE, row |-> row]

\* DatabaseManager.save_candidate: the row inserted, or RuntimeError (raised)
save_candidate(data, responses, enc_up, db_up) ==
    LET phone    == encrypt(Get(data, "phone_number", ""), enc_up)
        email    == encrypt(Get(data, "email", ""), enc_up)
        location == encrypt(Get(data, "current_location", ""), enc_up)
        row == [name                     |-> Clear(Get(data, "name", "")),
                phone_number             |-> phone.token,
                email                    |-> email.token,
                current_location         |-> location.token,
                experience_years         |-> IF "experience_years" \in DOMAIN data
                                             THEN ParseInt(data["experience_years"]).n
                                             ELSE 0,
                desired_positions        |-> Clear(Get(data, "desired_positions", "")),
                tech_stack               |-> Clear(Get(data, "tech_stack", "")),
                technical_responses_json |-> json_dumps(responses)]
    IN  IF phone.raised \/ email.raised \/ location.raised \/ ~db_up
        THEN [raised |-> TRUE, row |-> row]
        ELSE [raised |-> FALSE, row |-> row]

\* what get_candidate gives back; NoFetch when it was not called
Found(id, record) == [kind |-> "record", id |-> id, record |-> record]
NotFound(id) == [kind |-> "not_found", id |-> id, record |-> <<>>]
FetchError(id) == [kind |-> "error", id |-> id, record |-> <<>>]
NoFetch == [kind |-> "none", id |-> 0, record |-> <<>>]

\* a decryption failure swallowed field by field
get_candidate_lenient(id, key_ok, damaged) ==
    IF id \notin DOMAIN db THEN NotFound(id)
    ELSE LET row     == db[id]
             cell(f) == IF f \in damaged THEN Garbled ELSE row[f]
             plain(f) == decrypt(cell(f), key_ok)
         IN  Found(id, [name                |-> row.name.text,
                        phone_number        |-> plain("phone_number").text,
                        email               |-> plain("email").text,
                        current_location    |-> plain("current_location").text,
                        experience_years    |-> row.experience_years,
                        desired_positions   |-> row.desired_positions.text,
                        tech_stack          |-> row.tech_stack.text,
                        technical_responses |-> json_loads(row.technical_responses_json)])

\* DatabaseManager.get_candidate on a table whose cells in damaged were
\* altered since the save, read with the writer's key or another one: the
\* record, None for no such row, RuntimeError for any failure
get_candidate(id, key_ok, damaged) ==
    IF id \notin DOMAIN db THEN NotFound(id)
    ELSE LET row     == db[id]
             cell(f) == IF f \in damaged THEN Garbled ELSE row[f]
             plain(f) == decrypt(cell(f), key_ok)
         IN  IF \E f \in SensitiveFields : plain(f).raised THEN FetchError(id)
             ELSE Found(id, [name                |-> row.name.text,
                             phone_number        |-> plain("phone_number").text,
                             email               |-> plain("email").text,
                             current_location    |-> plain("current_location").text,
                             experience_years    |-> row.experience_years,
                             desired_positions   |-> row.desired_positions.text,
                             tech_stack          |-> row.tech_stack.text,
                             technical_responses |-> json_loads(row.technical_responses_json)])

\* the archive record _save_candidate_data assembles
archive_record(data, responses, enc_up) ==
    LET payload == [candidate |-> data, technical_responses |-> responses]
        nothing == [candidate |-> <<>>, technical_responses |-> <<>>]
    IN  [plain            |-> payload,
         encrypted_fields |-> [k \in DOMAIN data |-> encrypt(data[k], enc_up).token],
         encrypted_blob   |-> IF enc_up THEN [ct |-> TRUE, payload |-> payload]
                              ELSE [ct |-> FALSE, payload |-> nothing]]

\* what save_candidate is called with; NoArgs before the first call
Args(data, responses) == [candidate_data |-> data, technical_responses |-> responses]
NoArgs == [candidate_data |-> None, technical_responses |-> None]

\* the save_candidate call left unguarded: its exception skips the archive
save_candidate_data_db_first(enc_up, db_up, arch_up) ==
    /\ save_calls' = save_calls + 1
    /\ IF DOMAIN candidate_data = {} /\ DOMAIN technical_responses = {}
       THEN UNCHANGED <<db, archive, db_calls, save_args>>
       ELSE LET saved == save_candidate(candidate_data, technical_responses, enc_up, db_up)
            IN  /\ db_calls' = db_calls + 1
                /\ save_args' = Args(candidate_data, technical_responses)
                /\ db' = IF saved.raised THEN db ELSE Append(db, saved.row)
                /\ archive' = IF arch_up /\ ~saved.raised
                              THEN Append(archive,
                                          archive_record(candidate_data, technical_responses, enc_up))
                              ELSE archive

\* the QA log left out of the save
save_candidate_data_profile_only(enc_up, db_up, arch_up) ==
    /\ save_calls' = save_calls + 1
    /\ IF DOMAIN candidate_data = {} /\ DOMAIN technical_responses = {}
       THEN UNCHANGED <<db, archive, db_calls, save_args>>
       ELSE LET saved == save_candidate(candidate_data, <<>>, enc_up, db_up)
            IN  /\ db_calls' = db_calls + 1
                /\ save_args' = Args(candidate_data, <<>>)
                /\ db' = IF saved.raised THEN db ELSE Append(db, saved.row)
                /\ archive' = IF arch_up
                              THEN Append(archive,
                                          archive_record(candidate_data, <<>>, enc_up))
                              ELSE archive

\* the early return for two empty dicts left out
save_candidate_data_unguarded(enc_up, db_up, arch_up) ==
    LET saved == save_candidate(candidate_data, technical_responses, enc_up, db_up)
    IN  /\ save_calls' = save_calls + 1
        /\ db_calls' = db_calls + 1
        /\ save_args' = Args(candidate_data, technical_responses)
        /\ db' = IF saved.raised THEN db ELSE Append(db, saved.row)
        /\ archive' = IF arch_up
                      THEN Append(archive,
                                  archive_record(candidate_data, technical_responses, enc_up))
                      ELSE archive

\* _save_candidate_data: nothing when both dicts are empty; otherwise one
\* save_candidate call and one archive append, each failure only logged
save_candidate_data(enc_up, db_up, arch_up) ==
    /\ save_calls' = save_calls + 1
    /\ IF DOMAIN candidate_data = {} /\ DOMAIN technical_responses = {}
       THEN UNCHANGED <<db, archive, db_calls, save_args>>
       ELSE LET saved == save_candidate(candidate_data, technical_responses, enc_up, db_up)
            IN  /\ db_calls' = db_calls + 1
                /\ save_args' = Args(candidate_data, technical_responses)
                /\ db' = IF saved.raised THEN db ELSE Append(db, saved.row)
                /\ archive' = IF arch_up
                              THEN Append(archive,
                                          archive_record(candidate_data, technical_responses, enc_up))
                              ELSE archive

----------------------------------------------------------------------------
(* State handlers.  Each gives the session state and the result of the     *)
(* call; the text of a reply is the sequence of its parts.                 *)

\* the first utterance taken as the name
handle_greeting_takes_name(ai_up) ==
    /\ state' = COLLECTING_INFO
    /\ candidate_data' = Put(candidate_data, FieldAt(0), Strip(user_input'))
    /\ current_field_index' = 1
    /\ awaiting_field' = FieldAt(1)
    /\ result' = Returned(<<get_ai_response("greeting", ai_up)>>, FALSE)
    /\ UNCHANGED <<technical_responses, current_questions, current_question_index>>

\* the field index set past the first field
handle_greeting_skip_name(ai_up) ==
    /\ state' = COLLECTING_INFO
    /\ current_field_index' = 1
    /\ awaiting_field' = FieldAt(1)
    /\ result' = Returned(<<get_ai_response("greeting", ai_up)>>, FALSE)
    /\ UNCHANGED <<candidate_data, technical_responses, current_questions,
                   current_question_index>>

handle_greeting(ai_up) ==
    /\ state' = COLLECTING_INFO
    /\ current_field_index' = 0
    /\ awaiting_field' = FieldAt(0)
    /\ result' = Returned(<<get_ai_response("greeting", ai_up)>>, FALSE)
    /\ UNCHANGED <<candidate_data, technical_responses, current_questions,
                   current_question_index>>

handle_info_collection(input, dns_ok, net_up, ai_ack, ai_next) ==
    LET started == awaiting_field # None
        index   == IF started THEN current_field_index ELSE 0
        field   == IF started THEN awaiting_field ELSE FieldAt(0)
        out     == validate_and_store_field(field, input, dns_ok, net_up)
        ack_msg == get_ai_response("acknowledgement", ai_ack)
    IN  /\ candidate_data' = out.data
        /\ UNCHANGED <<technical_responses, current_questions, current_question_index>>
        /\ CASE out.kind = "stored" ->
                  /\ current_field_index' = index + 1
                  /\ IF index + 1 >= Len(info_fields)
                     THEN /\ awaiting_field' = None
                          /\ state' = TECH_TRANSITION
                          /\ result' = Returned(<<ack_msg, get_ai_response("transition", ai_next)>>,
                                                FALSE)
                     ELSE /\ awaiting_field' = FieldAt(index + 1)
                          /\ state' = state
                          /\ result' = Returned(<<ack_msg,
                                                  get_ai_response("information_gathering", ai_next)>>,
                                                FALSE)
             [] out.kind = "rejected" ->
                  /\ current_field_index' = index
                  /\ awaiting_field' = field
                  /\ state' = state
                  /\ result' = Returned(<<get_ai_response("validation_error", ai_ack)>>, FALSE)
             [] out.kind = "raised" ->
                  /\ current_field_index' = index
                  /\ awaiting_field' = field
                  /\ state' = state
                  /\ result' = Raised

\* the first question asked without the list being kept
handle_tech_transition_unstored(gen, ai_up) ==
    LET generated == generate_technical_questions(gen)
    IN  /\ UNCHANGED <<candidate_data, technical_responses, current_field_index, awaiting_field>>
        /\ IF ~generated.ok
           THEN /\ result' = Returned(<<get_ai_response("fallback", ai_up)>>, FALSE)
                /\ UNCHANGED <<state, current_questions, current_question_index>>
           ELSE /\ state' = TECHNICAL_QUESTIONS
                /\ result' = Returned(<<generated.questions[1]>>, FALSE)
                /\ UNCHANGED <<current_questions, current_question_index>>

handle_tech_transition(gen, ai_up) ==
    LET generated == generate_technical_questions(gen)
    IN  /\ UNCHANGED <<candidate_data, technical_responses, current_field_index, awaiting_field>>
        /\ IF ~generated.ok
           THEN /\ result' = Returned(<<get_ai_response("fallback", ai_up)>>, FALSE)
                /\ UNCHANGED <<state, current_questions, current_question_index>>
           ELSE IF generated.questions = <<>>
           THEN /\ state' = ENDED
                /\ result' = Returned(<<get_ai_response("end_conversation", ai_up)>>, FALSE)
                /\ UNCHANGED <<current_questions, current_question_index>>
           ELSE /\ current_questions' = generated.questions
                /\ current_question_index' = 0
                /\ state' = TECHNICAL_QUESTIONS
                /\ result' = Returned(<<generated.questions[1]>>, FALSE)

\* the answer filed under the index after the increment
handle_technical_questions_late_key(input, ai_ack, ai_end) ==
    /\ UNCHANGED <<candidate_data, current_questions, current_field_index, awaiting_field>>
    /\ IF current_question_index < Len(current_questions)
       THEN /\ technical_responses' =
                   Put(technical_responses, current_question_index + 1,
                       [question |-> current_questions[current_question_index + 1],
                        answer   |-> input])
            /\ current_question_index' = current_question_index + 1
            /\ IF current_question_index + 1 < Len(current_questions)
               THEN /\ state' = state
                    /\ result' = Returned(<<get_ai_response("acknowledgement", ai_ack),
                                            current_questions[current_question_index + 2]>>,
                                          FALSE)
               ELSE /\ state' = ENDED
                    /\ result' = Returned(<<get_ai_response("end_conversation", ai_end)>>, FALSE)
       ELSE /\ result' = Returned(<<get_ai_response("fallback", ai_ack)>>, FALSE)
            /\ UNCHANGED <<state, technical_responses, current_question_index>>

\* the last answer recorded without self.state = ENDED
handle_technical_questions_open(input, ai_ack, ai_end) ==
    /\ UNCHANGED <<candidate_data, current_questions, current_field_index, awaiting_field,
                   state>>
    /\ IF current_question_index < Len(current_questions)
       THEN /\ technical_responses' =
                   Put(technical_responses, current_question_index,
                       [question |-> current_questions[current_question_index + 1],
                        answer   |-> input])
            /\ current_question_index' = current_question_index + 1
            /\ result' =
                   IF current_question_index + 1 < Len(current_questions)
                   THEN Returned(<<get_ai_response("acknowledgement", ai_ack),
                                   current_questions[current_question_index + 2]>>, FALSE)
                   ELSE Returned(<<get_ai_response("end_conversation", ai_end)>>, FALSE)
       ELSE /\ result' = Returned(<<get_ai_response("fallback", ai_ack)>>, FALSE)
            /\ UNCHANGED <<technical_responses, current_question_index>>

handle_technical_questions(input, ai_ack, ai_end) ==
    /\ UNCHANGED <<candidate_data, current_questions, current_field_index, awaiting_field>>
    /\ IF current_question_index < Len(current_questions)
       THEN /\ technical_responses' =
                   Put(technical_responses, current_question_index,
                       [question |-> current_questions[current_question_index + 1],
                        answer   |-> input])
            /\ current_question_index' = current_question_index + 1
            /\ IF current_question_index + 1 < Len(current_questions)
               THEN /\ state' = state
                    /\ result' = Returned(<<get_ai_response("acknowledgement", ai_ack),
                                            current_questions[current_question_index + 2]>>,
                                          FALSE)
               ELSE /\ state' = ENDED
                    /\ result' = Returned(<<get_ai_response("end_conversation", ai_end)>>, FALSE)
       ELSE /\ result' = Returned(<<get_ai_response("fallback", ai_ack)>>, FALSE)
            /\ UNCHANGED <<state, technical_responses, current_question_index>>

\* no failure of the save caught: the exception leaves the handler before
\* the exit message and before self.state = CLOSED
handle_graceful_exit_uncaught(enc_up, db_up, arch_up, ai_up) ==
    LET saving == ~(DOMAIN candidate_data = {} /\ DOMAIN technical_responses = {})
        failed == saving /\ ~(enc_up /\ db_up /\ arch_up)
    IN  /\ save_candidate_data(enc_up, db_up, arch_up)
        /\ state' = IF failed THEN state ELSE CLOSED
        /\ result' = IF failed THEN Raised
                     ELSE Returned(<<get_ai_response("graceful_exit", ai_up)>>, TRUE)
        /\ UNCHANGED <<candidate_data, technical_responses, current_questions,
                       current_question_index, current_field_index, awaiting_field>>

handle_graceful_exit(enc_up, db_up, arch_up, ai_up) ==
    /\ save_candidate_data(enc_up, db_up, arch_up)
    /\ state' = CLOSED
    /\ result' = Returned(<<get_ai_response("graceful_exit", ai_up)>>, TRUE)
    /\ UNCHANGED <<candidate_data, technical_responses, current_questions,
                   current_question_index, current_field_index, awaiting_field>>

\* the reminder returned with the finished flag set
handle_ended_finished(ai_up) ==
    /\ result' = Returned(<<get_ai_response("end_conversation", ai_up)>>, TRUE)
    /\ UNCHANGED session

\* the reminder sent with the session closed
handle_ended_closes(ai_up) ==
    /\ result' = Returned(<<get_ai_response("end_conversation", ai_up)>>, FALSE)
    /\ state' = CLOSED
    /\ UNCHANGED <<candidate_data, technical_responses, current_questions,
                   current_question_index, current_field_index, awaiting_field>>

\* the reminder of state ENDED
handle_ended(ai_up) ==
    /\ result' = Returned(<<get_ai_response("end_conversation", ai_up)>>, FALSE)
    /\ UNCHANGED session

\* the fallback opening a closed session again
handle_fallback_reopens(ai_up) ==
    /\ result' = Returned(<<get_ai_response("fallback", ai_up)>>, FALSE)
    /\ state' = IF state = CLOSED THEN GREETING ELSE state
    /\ UNCHANGED <<candidate_data, technical_responses, current_questions,
                   current_question_index, current_field_index, awaiting_field>>

\* the fallback redirect: reveal requests, empty input, state CLOSED
handle_fallback(ai_up) ==
    /\ result' = Returned(<<get_ai_response("fallback", ai_up)>>, FALSE)
    /\ UNCHANGED session

----------------------------------------------------------------------------
(* process_message: the precedence rules and the state dispatch. *)

\* the redirect test placed before the exit test
dispatch_redirect_first(raw) ==
    LET input == Strip(raw)
    IN  IF is_reveal_request(input) \/ is_unwanted_behavior(input) THEN "redirect"
        ELSE IF is_exit_keyword(input) THEN "exit"
        ELSE IF state = GREETING THEN GREETING
        ELSE IF state = COLLECTING_INFO THEN COLLECTING_INFO
        ELSE IF state = TECH_TRANSITION THEN TECH_TRANSITION
        ELSE IF state = TECHNICAL_QUESTIONS THEN TECHNICAL_QUESTIONS
        ELSE IF state = ENDED THEN ENDED
        ELSE "fallback"

dispatch(raw) ==
    LET input == Strip(raw)
    IN  IF is_exit_keyword(input) THEN "exit"
        ELSE IF is_reveal_request(input) \/ is_unwanted_behavior(input) THEN "redirect"
        ELSE IF state = GREETING THEN GREETING
        ELSE IF state = COLLECTING_INFO THEN COLLECTING_INFO
        ELSE IF state = TECH_TRANSITION THEN TECH_TRANSITION
        ELSE IF state = TECHNICAL_QUESTIONS THEN TECHNICAL_QUESTIONS
        ELSE IF state = ENDED THEN ENDED
        ELSE "fallback"

\* no verifier and no generator is called
Idle ==
    [email |-> "idle", geocoder |-> "idle", generator |-> "idle", gen |-> NotJson,
     cipher |-> "idle", primary |-> "idle", archive |-> "idle"]

\* the cipher and the two sinks as the save of this call finds them; none
\* is touched when there is nothing to save
Sinks(enc_up, db_up, arch_up) ==
    IF DOMAIN candidate_data = {} /\ DOMAIN technical_responses = {} THEN Idle
    ELSE [Idle EXCEPT !.cipher  = IF enc_up THEN "up" ELSE "down",
                      !.primary = IF db_up THEN "up" ELSE "down",
                      !.archive = IF arch_up THEN "up" ELSE "down"]

\* the verifier the awaiting field consults, with what it does in this call
Consulted(dns_ok, net_up) ==
    [Idle EXCEPT !.email    = IF awaiting_field # "email" THEN "idle"
                              ELSE IF dns_ok THEN "deliverable" ELSE "undeliverable",
                 !.geocoder = IF awaiting_field # "current_location" THEN "idle"
                              ELSE IF net_up THEN "up" ELSE "down"]

\* the settings of ENCRYPTION_KEY: unset, empty, not a 32-byte url-safe
\* base64 string, or a Fernet key
KeySettings == {"unset", "empty", "malformed", "valid"}

\* a session whose ConversationManager was constructed with a Fernet key
Booted == [key |-> "valid", manager |-> "constructed"]

\* no helper called yet
NoUnit == [op |-> "none"]

\* the browser sessions
Tabs == {1, 2}

Other(t) == 3 - t

\* the attributes __init__ gives a ConversationManager
NewManager ==
    [state                  |-> GREETING,
     candidate_data         |-> <<>>,
     technical_responses    |-> <<>>,
     current_questions      |-> <<>>,
     current_question_index |-> 0,
     current_field_index    |-> 0,
     awaiting_field         |-> None]

\* the attributes of the manager of the browser session under way
Attrs ==
    [state                  |-> state,
     candidate_data         |-> candidate_data,
     technical_responses    |-> technical_responses,
     current_questions      |-> current_questions,
     current_question_index |-> current_question_index,
     current_field_index    |-> current_field_index,
     awaiting_field         |-> awaiting_field]

\* no other browser session
NoTab == [script |-> <<>>, pending |-> <<>>, conversation_ended |-> FALSE]

\* the chat loop after process_message returned: a finished flag ends the
\* conversation of the browser session; an exception leaves the flag alone
Chat == conversation_ended' = (conversation_ended \/ result'.finished)

\* the respondent sends raw, the next utterance of the script if there is one
Call(raw) ==
    /\ user_input' = raw
    /\ fetched' = NoFetch
    /\ UNCHANGED <<tab, managers, away>>
    /\ boot' = boot
    /\ unit' = unit
    /\ script' = script
    /\ pending' = IF pending = <<>> THEN pending ELSE Tail(pending)

Exit(raw, enc_up, db_up, arch_up, ai_up) ==
    /\ Call(raw)
    /\ dispatch(raw) = "exit"
    /\ exit_calls < MaxExits
    /\ exit_calls' = exit_calls + 1
    /\ LET faulty == /\ ~(DOMAIN candidate_data = {} /\ DOMAIN technical_responses = {})
                     /\ ~(enc_up /\ db_up /\ arch_up)
       IN  /\ faulty => fault_calls < MaxFaults
           /\ fault_calls' = IF faulty THEN fault_calls + 1 ELSE fault_calls
    /\ handle_graceful_exit(enc_up, db_up, arch_up, ai_up)
    /\ external' = Sinks(enc_up, db_up, arch_up)
    /\ Chat

Redirect(raw, ai_up) ==
    /\ Call(raw)
    /\ dispatch(raw) = "redirect"
    /\ handle_fallback(ai_up)
    /\ external' = Idle
    /\ UNCHANGED <<stores, exit_calls, fault_calls>>
    /\ Chat

Greeting(raw, ai_up) ==
    /\ Call(raw)
    /\ dispatch(raw) = GREETING
    /\ handle_greeting(ai_up)
    /\ external' = Idle
    /\ UNCHANGED <<stores, exit_calls, fault_calls>>
    /\ Chat

InfoCollection(raw, dns_ok, net_up, ai_ack, ai_next) ==
    /\ Call(raw)
    /\ dispatch(raw) = COLLECTING_INFO
    /\ handle_info_collection(Strip(raw), dns_ok, net_up, ai_ack, ai_next)
    /\ external' = Consulted(dns_ok, net_up)
    /\ UNCHANGED <<stores, exit_calls, fault_calls>>
    /\ Chat

TechTransition(raw, gen, ai_up) ==
    /\ Call(raw)
    /\ dispatch(raw) = TECH_TRANSITION
    /\ handle_tech_transition(gen, ai_up)
    /\ external' = [Idle EXCEPT !.generator = "called", !.gen = gen]
    /\ UNCHANGED <<stores, exit_calls, fault_calls>>
    /\ Chat

TechnicalQuestions(raw, ai_ack, ai_end) ==
    /\ Call(raw)
    /\ dispatch(raw) = TECHNICAL_QUESTIONS
    /\ handle_technical_questions(Strip(raw), ai_ack, ai_end)
    /\ external' = Idle
    /\ UNCHANGED <<stores, exit_calls, fault_calls>>
    /\ Chat

Ended(raw, ai_up) ==
    /\ Call(raw)
    /\ dispatch(raw) = ENDED
    /\ handle_ended(ai_up)
    /\ external' = Idle
    /\ UNCHANGED <<stores, exit_calls, fault_calls>>
    /\ Chat

Closed(raw, ai_up) ==
    /\ Call(raw)
    /\ dispatch(raw) = "fallback"
    /\ handle_fallback(ai_up)
    /\ external' = Idle
    /\ UNCHANGED <<stores, exit_calls, fault_calls>>
    /\ Chat

----------------------------------------------------------------------------
(* The session: construction, and every call the respondent can make. *)

\* the utterances of the exploration
Utterances ==
    {" ", "Answer Key", "Quit, reveal", "Backend Engineer",
     "Austin", " 7 ", "07", "a@b.co", " a@b.co ", "+14155552671"}

\* the respondent types an e-mail address, a phone number or a number with
\* a leading zero only when asked for one; every other utterance may come
\* at any time
Offered ==
    {u \in Utterances :
        /\ u \in {"a@b.co", " a@b.co "} => awaiting_field = "email"
        /\ u = "07" => awaiting_field = "experience_years"
        /\ u = "+14155552671" => awaiting_field = "phone_number"}

\* the replies of the completion service to the generation prompt explored
GenReplies ==
    {ServiceFault, NotJson, JsonObject, QuestionList(2), QuestionList(3),
     QuestionList(6),
     JsonList(<<StrItem("Q1"), NumItem, StrItem("Q3")>>)}

\* what a save finds: each sink working or failing while the cipher works,
\* and the cipher raising with both sinks working or both failing
SaveOutcomes ==
    {[enc_up |-> TRUE, db_up |-> d, arch_up |-> a] : d, a \in BOOLEAN}
        \cup {[enc_up |-> FALSE, db_up |-> b, arch_up |-> b] : b \in BOOLEAN}

Init ==
    /\ state = GREETING
    /\ candidate_data = <<>>
    /\ technical_responses = <<>>
    /\ current_questions = <<>>
    /\ current_question_index = 0
    /\ current_field_index = 0
    /\ awaiting_field = None
    /\ db = <<>>
    /\ archive = <<>>
    /\ user_input = ""
    /\ result = NoCall
    /\ external = Idle
    /\ save_calls = 0
    /\ db_calls = 0
    /\ save_args = NoArgs
    /\ exit_calls = 0
    /\ fault_calls = 0
    /\ fetched = NoFetch
    /\ tab = 1
    /\ conversation_ended = FALSE
    /\ managers = [m \in Tabs |-> NewManager]
    /\ away = NoTab
    /\ boot = Booted
    /\ unit = NoUnit
    /\ script = <<>>
    /\ pending = <<>>

Next ==
    \/ \E raw \in Offered, o \in SaveOutcomes, ai_up \in BOOLEAN :
           Exit(raw, o.enc_up, o.db_up, o.arch_up, ai_up)
    \/ \E raw \in Offered, ai_up \in BOOLEAN : Redirect(raw, ai_up)
    \/ \E raw \in Offered, ai_up \in BOOLEAN : Greeting(raw, ai_up)
    \/ \E raw \in Offered, dns_ok, net_up, ai_ack, ai_next \in BOOLEAN :
           InfoCollection(raw, dns_ok, net_up, ai_ack, ai_next)
    \/ \E raw \in Offered, gen \in GenReplies, ai_up \in BOOLEAN :
           TechTransition(raw, gen, ai_up)
    \/ \E raw \in Offered, ai_ack, ai_end \in BOOLEAN :
           TechnicalQuestions(raw, ai_ack, ai_end)
    \/ \E raw \in Offered, ai_up \in BOOLEAN : Ended(raw, ai_up)
    \/ \E raw \in Offered, ai_up \in BOOLEAN : Closed(raw, ai_up)

Spec == Init /\ [][Next]_vars

----------------------------------------------------------------------------
(* Scripted sessions: a fresh engine is fed a fixed list of utterances,    *)
(* one per call, while every field verifier accepts what it is shown.      *)

\* the ids asked for: the rows a session can write and one more
Ids == 1..(MaxExits + 1)

\* a reader looks a record up
GetCandidate(id, key_ok, damaged) ==
    /\ fetched' = get_candidate(id, key_ok, damaged)
                      @@ [key_ok |-> key_ok, damaged |-> damaged]
    /\ UNCHANGED <<session, stores, user_input, result, external, exit_calls, fault_calls,
                   tab, conversation_ended, managers, away, boot, unit, script, pending>>

JaneScript ==
    <<"Jane Doe", "jane@example.com", "+14155552671", "Austin, USA", "3",
      "Backend Engineer", "Python, PostgreSQL">>

\* a blank line, a word to be greeted, the seven answers with a position
\* that holds no exit keyword, then the technical round, the reminder, the
\* exit and a word after it
FullScript ==
    <<" ", "Austin", "Jane Doe", "jane@example.com", "+14155552671", "Austin, USA",
      "3", "Austin", "Python, PostgreSQL", "Austin", " 7 ", "Austin", "Answer Key",
      "Austin", "Austin", "Exit", "Austin">>

\* the seven answers after a word to be greeted
GreetedJaneScript == <<"Austin">> \o JaneScript

Scripts == {JaneScript, GreetedJaneScript, FullScript}

ScenarioInit ==
    /\ state = GREETING
    /\ candidate_data = <<>>
    /\ technical_responses = <<>>
    /\ current_questions = <<>>
    /\ current_question_index = 0
    /\ current_field_index = 0
    /\ awaiting_field = None
    /\ db = <<>>
    /\ archive = <<>>
    /\ user_input = ""
    /\ result = NoCall
    /\ external = Idle
    /\ save_calls = 0
    /\ db_calls = 0
    /\ save_args = NoArgs
    /\ exit_calls = 0
    /\ fault_calls = 0
    /\ fetched = NoFetch
    /\ tab = 1
    /\ conversation_ended = FALSE
    /\ managers = [m \in Tabs |-> NewManager]
    /\ away = NoTab
    /\ boot = Booted
    /\ unit = NoUnit
    /\ script \in Scripts
    /\ pending = script

ScenarioSay ==
    /\ pending # <<>>
    /\ LET raw == Head(pending)
       IN  \/ \E o \in SaveOutcomes, ai_up \in BOOLEAN :
                  Exit(raw, o.enc_up, o.db_up, o.arch_up, ai_up)
           \/ \E ai_up \in BOOLEAN : Redirect(raw, ai_up)
           \/ \E ai_up \in BOOLEAN : Greeting(raw, ai_up)
           \/ \E ai_ack, ai_next \in BOOLEAN : InfoCollection(raw, TRUE, TRUE, ai_ack, ai_next)
           \/ \E gen \in GenReplies, ai_up \in BOOLEAN : TechTransition(raw, gen, ai_up)
           \/ \E ai_ack, ai_end \in BOOLEAN : TechnicalQuestions(raw, ai_ack, ai_end)
           \/ \E ai_up \in BOOLEAN : Ended(raw, ai_up)
           \/ \E ai_up \in BOOLEAN : Closed(raw, ai_up)

ScenarioNext ==
    \/ ScenarioSay
    \/ \E id \in Ids, key_ok \in BOOLEAN, damaged \in SUBSET SensitiveFields :
           GetCandidate(id, key_ok, damaged)

ScenarioSpec == ScenarioInit /\ [][ScenarioNext]_vars

----------------------------------------------------------------------------
(* Start-up: initialize_session_state constructs the ConversationManager   *)
(* of a browser session, which constructs the DatabaseManager and with it  *)
(* the EncryptionManager, under the ENCRYPTION_KEY of the environment.     *)

\* the key handed to Fernet whatever it is
encryption_manager_init_unchecked(key) == [raised |-> FALSE]

\* EncryptionManager.__init__: ValueError (raised) for a key that is unset
\* or empty and for one Fernet refuses
encryption_manager_init(key) ==
    IF key \in {"unset", "empty"} THEN [raised |-> TRUE]
    ELSE IF key # "valid" THEN [raised |-> TRUE]
    ELSE [raised |-> FALSE]

\* DatabaseManager.__init__: the EncryptionManager, then the table
database_manager_init(key) == encryption_manager_init(key)

\* ConversationManager.__init__: the exception of the DatabaseManager or of
\* the EncryptionManager leaves it before any attribute is set
conversation_manager_init(key) ==
    IF database_manager_init(key).raised THEN [raised |-> TRUE]
    ELSE encryption_manager_init(key)

StartupInit ==
    /\ state = None
    /\ candidate_data = <<>>
    /\ technical_responses = <<>>
    /\ current_questions = <<>>
    /\ current_question_index = 0
    /\ current_field_index = 0
    /\ awaiting_field = None
    /\ db = <<>>
    /\ archive = <<>>
    /\ user_input = ""
    /\ result = NoCall
    /\ external = Idle
    /\ save_calls = 0
    /\ db_calls = 0
    /\ save_args = NoArgs
    /\ exit_calls = 0
    /\ fault_calls = 0
    /\ fetched = NoFetch
    /\ tab = 1
    /\ conversation_ended = FALSE
    /\ managers = [m \in Tabs |-> NewManager]
    /\ away = NoTab
    /\ boot \in {[key |-> k, manager |-> "none"] : k \in KeySettings}
    /\ unit = NoUnit
    /\ script = <<>>
    /\ pending = <<>>

\* initialize_session_state on a run of the script that finds no
\* conversation_manager in the session state
Construct ==
    /\ boot.manager # "constructed"
    /\ IF conversation_manager_init(boot.key).raised
       THEN /\ boot' = [boot EXCEPT !.manager = "raised"]
            /\ UNCHANGED session
       ELSE /\ boot' = [boot EXCEPT !.manager = "constructed"]
            /\ state' = GREETING
            /\ candidate_data' = <<>>
            /\ technical_responses' = <<>>
            /\ current_questions' = <<>>
            /\ current_question_index' = 0
            /\ current_field_index' = 0
            /\ awaiting_field' = None
    /\ UNCHANGED <<stores, user_input, result, external, exit_calls, fault_calls, fetched,
                   tab, conversation_ended, managers, away, unit, script, pending>>

\* the chat input reaches process_message of the manager kept in the
\* session state
StartupNext ==
    \/ Construct
    \/ boot.manager = "constructed" /\ Next

StartupSpec == StartupInit /\ [][StartupNext]_vars

----------------------------------------------------------------------------
(* The Streamlit application (app.py): two browser sessions, each with its *)
(* own st.session_state, send the utterances of their scripts through the  *)
(* chat input.  The candidates table and the archive file are common to    *)
(* them.                                                                   *)

\* one object for every browser session, as a module-level global would be
conversation_manager_shared(t) == 1

\* st.session_state.conversation_manager of browser session t: the object
\* initialize_session_state constructed for that session state
conversation_manager_of(t) == t

\* the chat input shown whatever the flag
chat_input_always(ended) == TRUE

\* "if not st.session_state.conversation_ended": the chat input is shown
chat_input_shown(ended) == ~ended

\* the attributes of the manager of browser session t
AttrsOf(t) ==
    IF conversation_manager_of(t) = conversation_manager_of(tab) THEN Attrs
    ELSE managers[conversation_manager_of(t)]

PendingOf(t) == IF t = tab THEN pending ELSE away.pending

EndedOf(t) == IF t = tab THEN conversation_ended ELSE away.conversation_ended

\* the attributes of manager m become the session of the model
Load(m) ==
    /\ state' = m.state
    /\ candidate_data' = m.candidate_data
    /\ technical_responses' = m.technical_responses
    /\ current_questions' = m.current_questions
    /\ current_question_index' = m.current_question_index
    /\ current_field_index' = m.current_field_index
    /\ awaiting_field' = m.awaiting_field

\* a script run of browser session t begins: st.session_state is the
\* session state of t
Run(t) ==
    /\ t # tab
    /\ tab' = t
    /\ LET parked == [managers EXCEPT ![conversation_manager_of(tab)] = Attrs]
       IN  /\ managers' = parked
           /\ Load(parked[conversation_manager_of(t)])
    /\ away' = [script |-> script, pending |-> pending,
                conversation_ended |-> conversation_ended]
    /\ script' = away.script
    /\ pending' = away.pending
    /\ conversation_ended' = away.conversation_ended
    /\ UNCHANGED <<stores, user_input, result, external, exit_calls, fault_calls, fetched,
                   boot, unit>>

\* the scripts of the respondents: a name given and the session left, then
\* a new assessment begun; two fields given and the session left
LeaverScript == <<"Austin", "Jane Doe", "Exit", "Austin", "Jane Doe">>
QuitterScript == <<"Austin", "Jane Doe", "jane@example.com", "Quit, reveal", "Austin">>

\* the second respondent leaves early; the first may stay to the end
AwayScripts == {LeaverScript, QuitterScript}
AppScripts == AwayScripts \cup {FullScript}

AppInit ==
    /\ state = GREETING
    /\ candidate_data = <<>>
    /\ technical_responses = <<>>
    /\ current_questions = <<>>
    /\ current_question_index = 0
    /\ current_field_index = 0
    /\ awaiting_field = None
    /\ db = <<>>
    /\ archive = <<>>
    /\ user_input = ""
    /\ result = NoCall
    /\ external = Idle
    /\ save_calls = 0
    /\ db_calls = 0
    /\ save_args = NoArgs
    /\ exit_calls = 0
    /\ fault_calls = 0
    /\ fetched = NoFetch
    /\ tab = 1
    /\ conversation_ended = FALSE
    /\ managers = [m \in Tabs |-> NewManager]
    /\ away \in {[script |-> a, pending |-> a, conversation_ended |-> FALSE] : a \in AwayScripts}
    /\ boot = Booted
    /\ unit = NoUnit
    /\ script \in AppScripts
    /\ pending = script

\* the chat input of the browser session under way hands the next
\* utterance of its script to process_message; the services all work but
\* the completion service, which may fail
AppSay ==
    /\ chat_input_shown(conversation_ended)
    /\ pending # <<>>
    /\ LET raw == Head(pending)
       IN  \/ \E ai_up \in BOOLEAN : Exit(raw, TRUE, TRUE, TRUE, ai_up)
           \/ \E ai_up \in BOOLEAN : Redirect(raw, ai_up)
           \/ \E ai_up \in BOOLEAN : Greeting(raw, ai_up)
           \/ \E ai_ack, ai_next \in BOOLEAN : InfoCollection(raw, TRUE, TRUE, ai_ack, ai_next)
           \/ \E gen \in GenReplies, ai_up \in BOOLEAN : TechTransition(raw, gen, ai_up)
           \/ \E ai_ack, ai_end \in BOOLEAN : TechnicalQuestions(raw, ai_ack, ai_end)
           \/ \E ai_up \in BOOLEAN : Ended(raw, ai_up)
           \/ \E ai_up \in BOOLEAN : Closed(raw, ai_up)

\* "Start New Assessment": every key of the session state is deleted and
\* the rerun constructs a new ConversationManager
StartNew ==
    /\ ~chat_input_shown(conversation_ended)
    /\ Load(NewManager)
    /\ conversation_ended' = FALSE
    /\ UNCHANGED <<stores, user_input, result, external, exit_calls, fault_calls, fetched,
                   tab, managers, away, boot, unit, script, pending>>

\* a line of another writer begun at the same end of file: the bytes of a
\* up to where those of b take over
Torn(a, b) ==
    [plain |-> a.plain, encrypted_fields |-> b.encrypted_fields,
     encrypted_blob |-> b.encrypted_blob]

\* open(archive_path, "a") and write(line) by two script threads at once,
\* with no lock taken: the two lines one after the other where every
\* write lands whole at the end of the file; where the end is sought
\* before the write, both writes start at the same offset, and the later
\* one overwrites the earlier or part of it
concurrent_appends(file, a, b) ==
    {file \o <<a, b>>, file \o <<b, a>>,
     file \o <<a>>, file \o <<b>>,
     file \o <<Torn(a, b)>>, file \o <<Torn(b, a)>>}

\* both browser sessions send an exit keyword at once: the two
\* _handle_graceful_exit calls run in two script threads, each saving what
\* its manager collected
ExitTogether(ai_up) ==
    LET him  == managers[conversation_manager_of(Other(tab))]
        mine == save_candidate(candidate_data, technical_responses, TRUE, TRUE).row
        his  == save_candidate(him.candidate_data, him.technical_responses, TRUE, TRUE).row
        my_line  == archive_record(candidate_data, technical_responses, TRUE)
        his_line == archive_record(him.candidate_data, him.technical_responses, TRUE)
    IN  /\ chat_input_shown(conversation_ended) /\ chat_input_shown(away.conversation_ended)
        /\ pending # <<>> /\ away.pending # <<>>
        /\ is_exit_keyword(Strip(Head(pending))) /\ is_exit_keyword(Strip(Head(away.pending)))
        /\ DOMAIN candidate_data # {} /\ DOMAIN him.candidate_data # {}
        /\ exit_calls + 2 <= MaxExits
        /\ exit_calls' = exit_calls + 2
        /\ save_calls' = save_calls + 2
        /\ db_calls' = db_calls + 2
        /\ \/ db' = db \o <<mine, his>>
              /\ save_args' = Args(him.candidate_data, him.technical_responses)
           \/ db' = db \o <<his, mine>>
              /\ save_args' = Args(candidate_data, technical_responses)
        /\ archive' \in concurrent_appends(archive, my_line, his_line)
        /\ state' = CLOSED
        /\ managers' = [managers EXCEPT ![conversation_manager_of(Other(tab))].state = CLOSED]
        /\ conversation_ended' = TRUE
        /\ away' = [away EXCEPT !.pending = Tail(@), !.conversation_ended = TRUE]
        /\ pending' = Tail(pending)
        /\ user_input' = Head(pending)
        /\ result' = Returned(<<get_ai_response("graceful_exit", ai_up)>>, TRUE)
        /\ external' = Sinks(TRUE, TRUE, TRUE)
        /\ UNCHANGED <<candidate_data, technical_responses, current_questions,
                       current_question_index, current_field_index, awaiting_field,
                       fault_calls, fetched, tab, boot, unit, script>>

AppNext ==
    \/ \E t \in Tabs : Run(t)
    \/ AppSay
    \/ StartNew
    \/ \E ai_up \in BOOLEAN : ExitTogether(ai_up)

AppSpec == AppInit /\ [][AppNext]_vars

----------------------------------------------------------------------------
(* The helpers called directly: each step hands one of them an input and   *)
(* keeps what it gave back.                                                *)

\* what is left of the engine when a helper is called directly
harness == <<stores, user_input, result, external, exit_calls, fault_calls, fetched,
             tab, conversation_ended, managers, away, boot, script, pending>>

\* EncryptionManager.encrypt(text) with a working cipher
Encrypt(text) ==
    /\ unit' = [op |-> "encrypt", text |-> text, cell |-> encrypt(text, TRUE).token]
    /\ UNCHANGED <<session, harness>>

\* EncryptionManager.decrypt of what the latest encrypt gave back, held
\* intact or altered since, by a manager built with the same key or with
\* another one
Decrypt(key_ok, tampered) ==
    /\ unit.op = "encrypt"
    /\ LET cell == IF tampered THEN Garbled ELSE unit.cell
       IN  unit' = [op |-> "decrypt", text |-> unit.text, cell |-> cell,
                    key_ok |-> key_ok, tampered |-> tampered,
                    out |-> decrypt(cell, key_ok)]
    /\ UNCHANGED <<session, harness>>

\* the replies of the completion service the generator is tried on: a
\* failing call, text that is no JSON, a JSON object, arrays of none to six
\* questions, an array with a number in it and arrays of three to five
\* strings of which one is empty
AllGenReplies ==
    {ServiceFault, NotJson, JsonObject,
     JsonList(<<StrItem("Q1"), NumItem, StrItem("Q3")>>)}
        \cup {QuestionList(n) : n \in 0..6}
        \cup {JsonList([i \in 1..n |-> IF i = k THEN StrItem("") ELSE StrItem(QText[i])]) :
                 n \in MinQuestions..MaxQuestions, k \in 1..MaxQuestions}

\* the bracket with five years still counted as mid-level
difficulty_senior_late(experience_years) ==
    IF experience_years < 2 THEN "junior"
    ELSE IF experience_years <= 5 THEN "mid-level"
    ELSE "senior"

\* the experience bracket of get_question_generation_prompt
difficulty(experience_years) ==
    IF experience_years < 2 THEN "junior"
    ELSE IF experience_years < 5 THEN "mid-level"
    ELSE "senior"

\* get_question_generation_prompt: what the instruction embeds
get_question_generation_prompt(tech_stack, experience_years) ==
    [experience_years |-> experience_years,
     difficulty       |-> difficulty(experience_years),
     tech_stack       |-> tech_stack]

\* PromptsManager.get_question_generation_prompt(tech_stack, experience_years)
QuestionPrompt(tech_stack, experience_years) ==
    /\ unit' = [op |-> "prompt",
                prompt |-> get_question_generation_prompt(tech_stack, experience_years)]
    /\ UNCHANGED <<session, harness>>

\* _generate_technical_questions with the completion service replying gen
Generate(gen) ==
    /\ unit' = [op |-> "generate", gen |-> gen, out |-> generate_technical_questions(gen)]
    /\ UNCHANGED <<session, harness>>

\* _validate_and_store_field(field, raw) on the profile as it stands
ValidateAndStore(field, raw, dns_ok, net_up) ==
    LET out == validate_and_store_field(field, raw, dns_ok, net_up)
    IN  /\ unit' = [op |-> "validate", field |-> field, raw |-> raw,
                    before |-> candidate_data, valid |-> out.kind = "stored"]
        /\ candidate_data' = out.data
        /\ UNCHANGED <<state, technical_responses, current_questions, current_question_index,
                       current_field_index, awaiting_field, harness>>

UnitNext ==
    \/ \E raw \in Text : ValidateAndStore("experience_years", raw, TRUE, TRUE)
    \/ \E text \in Text : Encrypt(text)
    \/ \E key_ok, tampered \in BOOLEAN : Decrypt(key_ok, tampered)
    \/ \E gen \in AllGenReplies : Generate(gen)
    \/ \E tech_stack \in {"Python, PostgreSQL", "7"}, years \in MinYears..MaxYears :
           QuestionPrompt(tech_stack, years)

UnitSpec == Init /\ [][UnitNext]_vars

----------------------------------------------------------------------------
(* A respondent who keeps the conversation going: the utterances are       *)
(* neither blank nor reveal requests, the reply service works, and the     *)
(* respondent may leave with an exit keyword at any time.                  *)

LiveUtterances == {"Austin", " 7 ", "a@b.co", "+14155552671", "Backend Engineer"}

LiveOffered ==
    {u \in LiveUtterances :
        /\ u = "a@b.co" => awaiting_field = "email"
        /\ u = "+14155552671" => awaiting_field = "phone_number"}

\* the generator's service fails or returns three questions
LiveGenReplies == {ServiceFault, QuestionList(2), QuestionList(3)}

\* a call in GREETING or TECHNICAL_QUESTIONS: any utterance that is
\* dispatched there is consumed
Said ==
    \/ \E raw \in LiveOffered : Greeting(raw, TRUE)
    \/ \E raw \in LiveOffered : TechnicalQuestions(raw, TRUE, TRUE)

\* a call in COLLECTING_INFO, and the one whose value the field accepts
Collects ==
    \E raw \in LiveOffered, dns_ok, net_up \in BOOLEAN :
        InfoCollection(raw, dns_ok, net_up, TRUE, TRUE)

Accepted == Collects /\ current_field_index' = current_field_index + 1

\* a call in TECH_TRANSITION, and the one in which the generator succeeds
Transits == \E raw \in LiveOffered, gen \in LiveGenReplies : TechTransition(raw, gen, TRUE)

Generated == Transits /\ state' = TECHNICAL_QUESTIONS

LiveNext ==
    \/ Said
    \/ Collects
    \/ Transits
    \/ \E raw \in LiveOffered : Ended(raw, TRUE)
    \/ \E raw \in LiveOffered : Closed(raw, TRUE)
    \/ \E raw \in LiveOffered, o \in SaveOutcomes :
           Exit(raw, o.enc_up, o.db_up, o.arch_up, TRUE)

\* the respondent goes on answering, every field is given a valid value in
\* the end and the generator succeeds in the end
LiveFairness == WF_vars(Said) /\ WF_vars(Accepted) /\ WF_vars(Generated)

LiveSpec == Init /\ [][LiveNext]_vars /\ LiveFairness

----------------------------------------------------------------------------
(* The properties checked.  The conditions below are read off the          *)
(* utterance and the recorded behaviour of the external services, on       *)
(* characters, apart from the operators process_message itself uses.       *)

\* the characters of the utterance, trimmed and lowered
TrimmedLower(u) == Lower(StripChars(Chars[u]))

\* the trimmed utterance contains an exit keyword, case-insensitively
HasExitKeyword ==
    [u \in Text |-> \E k \in EXIT_KEYWORDS : ContainsChars(TrimmedLower(u), Chars[k])]

\* the trimmed utterance contains a reveal term, case-insensitively
HasRevealTerm ==
    [u \in Text |-> \E t \in reveal_terms : ContainsChars(TrimmedLower(u), Chars[t])]

\* the utterance is empty or whitespace only
IsBlank == [u \in Text |-> StripChars(Chars[u]) = <<>>]

\* the utterance reaches the state handlers
Dispatched(u) == ~HasExitKeyword[u] /\ ~HasRevealTerm[u] /\ ~IsBlank[u]

\* a call has been made
Called == result.kind # "none"

\* the reply is the completion service's answer to the prompt, or the
\* apology _get_ai_response gives when the service fails
Answers(text, prompt) == text \in {prompt, APOLOGY}

\* C1: from every state, a call whose trimmed utterance contains an exit
\* keyword (case-insensitive substring) returns finished = true and leaves
\* the session in state Closed.
C1_ExitCloses ==
    (Called /\ HasExitKeyword[user_input])
        => /\ result.kind = "returned"
           /\ result.finished
           /\ state = CLOSED

\* an exit keyword inside a word, sent while technical questions were open,
\* and a second exit keyword sent after Closed
C1_Witness ==
    /\ user_input = "Backend Engineer"
    /\ state = CLOSED
    /\ exit_calls = 2
    /\ current_question_index = 1
    /\ result.finished

\* both dicts are empty: _save_candidate_data has nothing to save
NothingCollected == DOMAIN candidate_data = {} /\ DOMAIN technical_responses = {}

C3_Original == state = CLOSED => save_calls = 1

\* the utterance as the handlers see it: leading and trailing blanks removed
Trimmed == [u \in Text |-> FromChars(StripChars(Chars[u]))]

\* the verifier consulted in this call answered (the geocoder did not fault)
Answered(ext) == ext.geocoder # "down"

\* the field's validation rule accepts the trimmed value v, given what the
\* verifiers said in this call
RuleAccepts(field, v, ext) ==
    CASE field = "email"            -> EmailTable[v] /\ ext.email = "deliverable"
      [] field = "phone_number"     -> PhoneTable[v]
      [] field = "current_location" -> ext.geocoder = "up" /\ v \in KnownPlaces
      [] field = "experience_years" -> IntTable[v].ok /\ 0 <= IntTable[v].n
                                                      /\ IntTable[v].n <= 50
      [] OTHER                      -> v # ""

\* the field that follows index i in the fixed order, None after the last
FieldAfter(i) == IF i + 1 < Len(info_fields) THEN info_fields[i + 2] ELSE None

ValueOK(field, v) ==
    /\ Trimmed[v] = v
    /\ CASE field = "email"            -> EmailTable[v]
         [] field = "phone_number"     -> PhoneTable[v]
         [] field = "current_location" -> v \in KnownPlaces
         [] field = "experience_years" -> /\ IntTable[v].ok
                                          /\ 0 <= IntTable[v].n /\ IntTable[v].n <= 50
         [] OTHER                      -> v # ""

PrefixPopulated ==
    /\ current_field_index \in 0..Len(info_fields)
    /\ DOMAIN candidate_data = {info_fields[i] : i \in 1..current_field_index}
    /\ \A f \in DOMAIN candidate_data : ValueOK(f, candidate_data[f])

\* the form in which an accepted utterance u is kept under field f: the
\* decimal text of the number for experience_years, else u without the
\* blanks around it
StoredForm(f, u) ==
    IF f = "experience_years" THEN IntToText(ParseChars(Chars[u]).n) ELSE Trimmed[u]

WrittenAfterPassing ==
    \A f \in DOMAIN candidate_data' \ DOMAIN candidate_data :
        /\ f = awaiting_field
        /\ RuleAccepts(f, Trimmed[user_input'], external')
        /\ candidate_data'[f] = StoredForm(f, user_input')

\* C5: in every reachable state the populated profile fields are a prefix of
\* the fixed order whose length is the current field index, and every
\* populated value passed its field's validation rule when it was written.
C5_PrefixOfValidated == []PrefixPopulated /\ [][WrittenAfterPassing]_vars

\* the whole profile collected
C5_Witness ==
    /\ current_field_index = Len(info_fields)
    /\ DOMAIN candidate_data = {info_fields[i] : i \in 1..Len(info_fields)}
    /\ candidate_data["experience_years"] = "7"
    /\ user_input = "Austin"
    /\ state = TECH_TRANSITION

\* C6: once a profile field is written, no later call changes or removes it.
C6_ProfileOnlyGrows ==
    [][\A f \in DOMAIN candidate_data :
          f \in DOMAIN candidate_data' /\ candidate_data'[f] = candidate_data[f]]_vars

\* a call after Closed with the completion service down, the profile intact
C6_Witness ==
    /\ state = CLOSED
    /\ ~HasExitKeyword[user_input]
    /\ result.reply = <<APOLOGY>>
    /\ DOMAIN candidate_data = {info_fields[i] : i \in 1..Len(info_fields)}
    /\ DOMAIN technical_responses # {}

\* C7: no failure of an external dependency escapes process_message: whatever
\* faults during a call, the call returns a (text, finished) pair.
C7_AlwaysReturns == Called => result.kind = "returned"

\* C8: when the awaiting field is current_location and the geocoding lookup
\* fails with a network error, the call returns the validation-error reply
\* with finished = FALSE and the profile, awaiting field and state are
\* unchanged.
C8_LookupFaultIsInvalid ==
    [][(state = COLLECTING_INFO /\ awaiting_field = "current_location"
           /\ Dispatched(user_input') /\ external'.geocoder = "down")
          => /\ result'.kind = "returned"
             /\ Len(result'.reply) = 1
             /\ Answers(result'.reply[1], "validation_error")
             /\ ~result'.finished
             /\ UNCHANGED <<candidate_data, awaiting_field, state>>]_vars

\* the generator did not yield a list of three to five strings
GenerationFails(gen) ==
    \/ gen.fault
    \/ ~gen.is_json
    \/ ~gen.is_list
    \/ \E i \in DOMAIN gen.items : ~gen.items[i].is_str
    \/ Len(gen.items) < 3
    \/ Len(gen.items) > 5

\* C9: in state TechTransition, when question generation fails the session
\* moves to state Ended, end-of-session text is returned with
\* finished = FALSE, and no question set is taken up.
C9_FailedGenerationEnds ==
    [][(state = TECH_TRANSITION /\ Dispatched(user_input')
           /\ external'.generator = "called" /\ GenerationFails(external'.gen))
          => /\ state' = ENDED
             /\ result'.kind = "returned"
             /\ Len(result'.reply) = 1
             /\ Answers(result'.reply[1], "end_conversation")
             /\ ~result'.finished
             /\ current_questions' = <<>>]_vars

\* this call records the answer to the last question
LastAnswer ==
    /\ state = TECHNICAL_QUESTIONS
    /\ Dispatched(user_input')
    /\ current_question_index + 1 = Len(current_questions)

EndTextReturned ==
    /\ result'.kind = "returned"
    /\ Len(result'.reply) = 1
    /\ Answers(result'.reply[1], "end_conversation")

C11_ClosedStaysFinished ==
    [][state = CLOSED => (result'.kind = "returned" /\ result'.finished)]_vars

JaneProfile ==
    [name              |-> "Jane Doe",
     email             |-> "jane@example.com",
     phone_number      |-> "+14155552671",
     current_location  |-> "Austin, USA",
     experience_years  |-> "3",
     desired_positions |-> "Backend Engineer",
     tech_stack        |-> "Python, PostgreSQL"]

\* C12: a fresh session fed "Jane Doe", "jane@example.com", "+14155552671",
\* "Austin, USA", "3", "Backend Engineer", "Python, PostgreSQL" in order, every
\* verifier accepting, ends in TechTransition with exactly those seven
\* values in the profile; on the way every utterance is accepted and no call
\* returns finished = TRUE.
C12_JaneReachesTransition ==
    /\ []((script = JaneScript /\ pending = <<>>)
             => (state = TECH_TRANSITION /\ candidate_data = JaneProfile))
    /\ [][script = JaneScript
             => /\ result'.kind = "returned"
                /\ ~result'.finished
                /\ state = COLLECTING_INFO
                      => current_field_index' = current_field_index + 1]_vars

\* the same answers sent after the greeting turn: "Backend Engineer" holds
\* the exit keyword "end" and closes the session with five fields stored
C12_GreetedJaneExits ==
    /\ script = GreetedJaneScript
    /\ pending = <<>>
    /\ state = CLOSED
    /\ DOMAIN candidate_data = {info_fields[i] : i \in 1..5}
    /\ candidate_data["name"] = "Jane Doe"
    /\ exit_calls = 1

\* C13: a reveal request or a blank utterance that holds no exit keyword is
\* redirected in every state: the call returns finished = FALSE and leaves
\* the state, profile, awaiting field, question set, question index and QA
\* log unchanged.
C13_RedirectChangesNothing ==
    [][(~HasExitKeyword[user_input']
           /\ (HasRevealTerm[user_input'] \/ IsBlank[user_input']))
          => /\ result'.kind = "returned"
             /\ ~result'.finished
             /\ UNCHANGED <<state, candidate_data, awaiting_field, current_field_index,
                            current_questions, current_question_index,
                            technical_responses>>]_vars

\* a reveal request in the middle of the technical round
C13_Witness ==
    /\ user_input = "Answer Key"
    /\ state = TECHNICAL_QUESTIONS
    /\ current_question_index = 1
    /\ result.reply = <<"fallback">>
    /\ ~result.finished

\* C14: exit handling comes before every other rule: an utterance holding
\* an exit keyword is handled as an exit also when it is a reveal request
\* or would be a valid value for the awaiting field or a technical answer,
\* and that call writes nothing to the profile or the QA log.
C14_ExitFirst ==
    [][HasExitKeyword[user_input']
          => /\ exit_calls' = exit_calls + 1
             /\ save_calls' = save_calls + 1
             /\ state' = CLOSED
             /\ result' \in {Returned(<<"graceful_exit">>, TRUE), Returned(<<APOLOGY>>, TRUE)}
             /\ UNCHANGED <<candidate_data, technical_responses, current_field_index,
                            current_question_index>>]_vars

\* an exit keyword inside a reveal request, sent while a technical question
\* waits for its answer
C14_Witness ==
    /\ user_input = "Quit, reveal"
    /\ HasRevealTerm[user_input]
    /\ state = CLOSED
    /\ result.finished
    /\ current_questions # <<>>
    /\ current_question_index = 1
    /\ DOMAIN technical_responses = {0}

\* "Backend Engineer" while desired_positions is awaited: an exit, not a value
C14_WitnessField ==
    /\ user_input = "Backend Engineer"
    /\ state = CLOSED
    /\ awaiting_field = "desired_positions"
    /\ "desired_positions" \notin DOMAIN candidate_data
    /\ exit_calls = 1

\* C15: the data handed to save on exit is the profile and the QA log as
\* they stand at that instant: every field validated before the exit with
\* its stored value, no other field, and every recorded answer.
C15_SavedAsItStands ==
    [][db_calls' # db_calls
          => /\ HasExitKeyword[user_input']
             /\ DOMAIN save_args'.candidate_data
                   = {info_fields[i] : i \in 1..current_field_index}
             /\ \A f \in DOMAIN candidate_data :
                   save_args'.candidate_data[f] = candidate_data[f]
             /\ DOMAIN save_args'.technical_responses = 0..(current_question_index - 1)
             /\ \A q \in DOMAIN technical_responses :
                   save_args'.technical_responses[q] = technical_responses[q]]_vars

\* an exit after the first technical answer: seven fields and one answer
C15_Witness ==
    /\ state = CLOSED
    /\ HasExitKeyword[user_input]
    /\ db_calls = 1
    /\ DOMAIN save_args.candidate_data = {info_fields[i] : i \in 1..Len(info_fields)}
    /\ save_args.candidate_data["email"] = "a@b.co"
    /\ DOMAIN save_args.technical_responses = {0}
    /\ save_args.technical_responses[0].answer = "Austin"

\* one element was appended to the sequence
Grew(before, after) ==
    Len(after) = Len(before) + 1 /\ SubSeq(after, 1, Len(before)) = before

\* the profile holds a field that save_candidate encrypts
HasSensitive == DOMAIN candidate_data \cap {"email", "phone_number", "current_location"} # {}

\* C16: the archive append and the primary-store write are independent: the
\* archive is appended whenever the archive itself works, also when the
\* primary write fails; a failing archive leaves a completed primary write
\* in place; and no failure of either, or of both, leaves process_message.
C16_SinksIndependent ==
    [][(HasExitKeyword[user_input'] /\ external'.primary # "idle")
          => /\ result'.kind = "returned"
             /\ IF external'.archive = "up" THEN Grew(archive, archive')
                ELSE archive' = archive
             /\ IF external'.primary = "up" /\ (external'.cipher = "up" \/ ~HasSensitive)
                THEN Grew(db, db')
                ELSE db' = db]_vars

\* the primary write failed and the archive line was written all the same
C16_Witness ==
    /\ state = CLOSED
    /\ external.primary = "down"
    /\ external.archive = "up"
    /\ external.cipher = "up"
    /\ db = <<>>
    /\ Len(archive) = 1
    /\ archive[1].plain.candidate = candidate_data
    /\ result.finished

\* the archive failed and the row written before it stays
C16_WitnessArchiveDown ==
    /\ state = CLOSED
    /\ external.primary = "up"
    /\ external.archive = "down"
    /\ Len(db) = 1
    /\ archive = <<>>
    /\ result.finished

\* both failed and the call returned
C16_WitnessBothDown ==
    /\ state = CLOSED
    /\ external.primary = "down"
    /\ external.archive = "down"
    /\ db = <<>>
    /\ archive = <<>>
    /\ result = Returned(<<"graceful_exit">>, TRUE)

\* C17: when persistence fails during exit handling (the primary store,
\* the archive or the cipher raising), the exit call still returns the exit
\* message with finished = TRUE and the session ends in state Closed.
C17_FailedSaveStillCloses ==
    (external.primary = "down" \/ external.archive = "down" \/ external.cipher = "down")
        => /\ result.kind = "returned"
           /\ result.finished
           /\ Len(result.reply) = 1
           /\ Answers(result.reply[1], "graceful_exit")
           /\ state = CLOSED

\* the cipher raised: no row, an archive line without ciphertexts, the exit
\* message returned
C17_Witness ==
    /\ external.cipher = "down"
    /\ external.primary = "up"
    /\ HasSensitive
    /\ db = <<>>
    /\ Len(archive) = 1
    /\ ~archive[1].encrypted_blob.ct
    /\ state = CLOSED
    /\ result = Returned(<<"graceful_exit">>, TRUE)

\* C18: in every row written to the primary store the email, phone_number
\* and current_location columns never hold the cleartext profile value:
\* each holds the ciphertext of the value, or the empty string when the
\* field is absent.
C18_SensitiveEncrypted ==
    \A i \in DOMAIN db : \A f \in {"email", "phone_number", "current_location"} :
        IF f \in DOMAIN save_args.candidate_data
        THEN /\ db[i][f].ct
             /\ db[i][f].text = save_args.candidate_data[f]
             /\ db[i][f] # Clear(save_args.candidate_data[f])
        ELSE db[i][f] = Clear("")

\* a row written with the e-mail address stored and the phone number and
\* location still missing
C18_Witness ==
    /\ Len(db) = 1
    /\ DOMAIN candidate_data = {"name", "email"}
    /\ db[1].email = Token("a@b.co")
    /\ db[1].phone_number = Clear("")
    /\ db[1].current_location = Clear("")

\* C19: save encrypts only email, phone_number and current_location: in the
\* written row name, desired_positions and tech_stack are the cleartext
\* profile values, experience_years is the profile value as an integer, and
\* the QA log is one serialized value.
C19_OthersInCleartext ==
    \A i \in DOMAIN db :
        /\ \A f \in {"name", "desired_positions", "tech_stack"} :
              db[i][f] = Clear(IF f \in DOMAIN save_args.candidate_data
                               THEN save_args.candidate_data[f] ELSE "")
        /\ db[i].experience_years
              = IF "experience_years" \in DOMAIN save_args.candidate_data
                THEN IntTable[save_args.candidate_data["experience_years"]].n
                ELSE 0
        /\ db[i].experience_years \in 0..50
        /\ db[i].technical_responses_json = [json |-> save_args.technical_responses]

\* a row of a whole profile with one recorded answer
C19_Witness ==
    /\ Len(db) = 1
    /\ db[1].name = Clear("Austin")
    /\ db[1].experience_years = 7
    /\ db[1].tech_stack = Clear("Austin")
    /\ db[1].email.ct
    /\ DOMAIN db[1].technical_responses_json.json = {0}

\* the sensitive cells of the row that the reader cannot decrypt: altered
\* ones, and ciphertexts when the reader's key is not the writer's
Unreadable(row, key_ok, damaged) ==
    {f \in {"email", "phone_number", "current_location"} :
        f \in damaged \/ (row[f].ct /\ ~key_ok)}

\* the plaintext that was given to save for the field, "" when it had none
Given(f) ==
    IF f \in DOMAIN save_args.candidate_data THEN save_args.candidate_data[f] ELSE ""

\* C20: get returns the complete record with email, phone_number and
\* current_location equal to the plaintexts given to save, or not-found
\* for an unknown id, or an error when any sensitive ciphertext is
\* corrupted or was written under another key; never a record with only
\* some sensitive fields decrypted.
C20_GetAllOrNothing ==
    fetched.kind # "none"
        => IF fetched.id \notin 1..Len(db) THEN fetched.kind = "not_found"
           ELSE IF Unreadable(db[fetched.id], fetched.key_ok, fetched.damaged) # {}
           THEN fetched.kind = "error" /\ fetched.record = <<>>
           ELSE /\ fetched.kind = "record"
                /\ \A f \in {"email", "phone_number", "current_location", "name",
                             "desired_positions", "tech_stack"} :
                      fetched.record[f] = Given(f)
                /\ fetched.record.technical_responses = save_args.technical_responses

\* a whole record read back with its three sensitive fields in plaintext
C20_Witness ==
    /\ fetched.kind = "record"
    /\ fetched.record.email = "jane@example.com"
    /\ fetched.record.phone_number = "+14155552671"
    /\ fetched.record.current_location = "Austin, USA"
    /\ db[fetched.id].email = Token("jane@example.com")

\* one altered cell: an error and no record
C20_WitnessDamaged ==
    /\ fetched.kind = "error"
    /\ fetched.key_ok
    /\ fetched.damaged = {"email"}
    /\ db[fetched.id].phone_number.ct

C21_WitnessOtherKey ==
    /\ unit.op = "decrypt"
    /\ unit.text = " 7 "
    /\ ~unit.key_ok /\ ~unit.tampered
    /\ unit.out.raised

\* C22: when the encryption key is missing or malformed, construction of
\* the encryption service fails before any encrypt or decrypt call, so no
\* conversation session is created and no process_message call runs.
C22_NoKeyNoSession ==
    boot.key # "valid"
        => /\ boot.manager # "constructed"
           /\ state = None
           /\ result = NoCall
           /\ save_calls = 0 /\ db = <<>> /\ archive = <<>>

\* a start-up refused for a malformed key
C22_Witness ==
    /\ boot.key = "malformed"
    /\ boot.manager = "raised"

\* a session started under a Fernet key and used
C22_WitnessStarted ==
    /\ boot = Booted
    /\ state = CLOSED
    /\ Len(db) = 1

\* C23: the question generator returns a list of 3, 4 or 5 strings none of
\* which is empty, the items of the service's reply neither truncated nor
\* padded, or raises an error; it never returns fewer than 3 or more than
\* 5 items and never a list containing an empty string.
C23_ThreeToFiveNonEmpty ==
    unit.op = "generate"
        => \/ ~unit.out.ok
           \/ /\ Len(unit.out.questions) \in 3..5
              /\ \A i \in 1..Len(unit.out.questions) : unit.out.questions[i] # ""
              /\ Len(unit.out.questions) = Len(unit.gen.items)
              /\ \A i \in 1..Len(unit.out.questions) :
                    unit.out.questions[i] = unit.gen.items[i].s

\* C23 without the demand that no question is empty, which is what the
\* generator keeps to: 3 to 5 strings exactly as the service replied, or an
\* error.
C23_ThreeToFiveStrings ==
    unit.op = "generate"
        => \/ ~unit.out.ok
           \/ /\ Len(unit.out.questions) \in 3..5
              /\ unit.gen.is_list
              /\ Len(unit.out.questions) = Len(unit.gen.items)
              /\ \A i \in 1..Len(unit.out.questions) :
                    /\ unit.gen.items[i].is_str
                    /\ unit.out.questions[i] = unit.gen.items[i].s

\* a list returned with an empty string in it
C23_EmptyQuestionReturned ==
    /\ unit.op = "generate"
    /\ unit.out.ok
    /\ \E i \in 1..Len(unit.out.questions) : unit.out.questions[i] = ""

\* the integer the text denotes, blanks around it dropped: an optional
\* sign and decimal digits
Denotes(raw) == ParseChars(Chars[raw])

\* C24: validation of experience_years accepts exactly the integers of the
\* inclusive range 0..50: it accepts 0 and 50, rejects -1, 51 and text that
\* is no number, and leaves the profile unchanged on rejection.
C24_YearsZeroToFifty ==
    (unit.op = "validate" /\ unit.field = "experience_years")
        => /\ unit.valid <=> (Denotes(unit.raw).ok /\ Denotes(unit.raw).n \in 0..50)
           /\ unit.raw \in {"0", "50", " 50", " 7 ", "3"} => unit.valid
           /\ unit.raw \in {"-1", "51", "3.5", "", " ", "Austin", "+14155552671"} => ~unit.valid
           /\ ~unit.valid => candidate_data = unit.before
           /\ unit.valid
                 => /\ DOMAIN candidate_data = DOMAIN unit.before \cup {"experience_years"}
                    /\ Denotes(candidate_data["experience_years"]) = Denotes(unit.raw)
                    /\ \A f \in DOMAIN unit.before \ {"experience_years"} :
                          candidate_data[f] = unit.before[f]

\* 51 refused after 50 was stored: the profile keeps 50
C24_Witness ==
    /\ unit.op = "validate"
    /\ unit.raw = "51"
    /\ ~unit.valid
    /\ unit.before = ("experience_years" :> "50")
    /\ candidate_data = unit.before

\* the lower boundary taken
C24_WitnessZero ==
    /\ unit.op = "validate"
    /\ unit.raw = "0"
    /\ unit.valid
    /\ candidate_data = ("experience_years" :> "0")

\* browser session t made a call in this step: its script lost an utterance
CalledBy(t) == PendingOf(t)' # PendingOf(t)

\* browser session t began a new assessment in this step
Restarted(t) == EndedOf(t) /\ ~EndedOf(t)'

\* C25: distinct sessions are isolated: a process_message call on one
\* session leaves the state, profile, awaiting field, question set, question
\* index and QA log of every other session unchanged, under any
\* interleaving of calls on different sessions.
C25_SessionsIsolated ==
    [][\A t \in Tabs : ~CalledBy(t) /\ ~Restarted(t) => AttrsOf(t)' = AttrsOf(t)]_vars

\* both sessions under way on profiles of their own: one collecting the
\* e-mail address, the other closed with a name
C25_Witness ==
    /\ AttrsOf(1).state = CLOSED
    /\ AttrsOf(2).state = COLLECTING_INFO
    /\ AttrsOf(2).awaiting_field = "phone_number"
    /\ DOMAIN AttrsOf(1).candidate_data = {"name"}
    /\ tab = 1

\* the line is the whole entry of one session: the plain payload, its
\* fields encrypted one by one and the payload encrypted as one blob
WholeEntry(line) ==
    line = archive_record(line.plain.candidate, line.plain.technical_responses, TRUE)

\* C26: when two sessions exit concurrently, the archive ends up with one
\* complete line per archive append, each line the whole entry of one
\* session: no line mixes bytes of two entries and no entry is lost.
C26_AppendsAtomic ==
    /\ Len(archive) = db_calls
    /\ \A i \in 1..Len(archive) : WholeEntry(archive[i])

\* two exits at once that left a single line, made of two entries
C26_TornLine ==
    /\ db_calls = 2
    /\ Len(archive) = 1
    /\ ~WholeEntry(archive[1])

\* two exits at once that left a single whole line: the other entry is lost
C26_LostEntry ==
    /\ db_calls = 2
    /\ Len(archive) = 1
    /\ WholeEntry(archive[1])

\* C27: in the presentation layer, once process_message has returned
\* finished = true no further utterance is passed to process_message for
\* that session; input is accepted again only after the session state was
\* cleared and a new session created.
C27_FinishedGatesInput ==
    [][\A t \in Tabs :
          /\ CalledBy(t) => ~EndedOf(t)
          /\ (CalledBy(t) /\ result'.finished) => EndedOf(t)'
          /\ Restarted(t) => AttrsOf(t)' = NewManager]_vars

\* a new assessment under way after the first one was left: the word after
\* the exit was greeted by a new manager
C27_Witness ==
    /\ script = LeaverScript
    /\ pending = <<"Jane Doe">>
    /\ user_input = "Austin"
    /\ state = COLLECTING_INFO
    /\ candidate_data = <<>>
    /\ ~conversation_ended
    /\ db_calls >= 1

\* a session that ended with utterances still to send
C27_WitnessGated ==
    /\ conversation_ended
    /\ result.finished
    /\ pending # <<>>
    /\ state = CLOSED

\* C28: in state Greeting, an utterance that is neither an exit nor
\* redirected moves the session to CollectingInfo with awaiting field name
\* (field index 0) and returns finished = false.
C28_GreetingAsksName ==
    [][(state = GREETING /\ Dispatched(user_input'))
          => /\ state' = COLLECTING_INFO
             /\ awaiting_field' = "name"
             /\ current_field_index' = 0
             /\ result'.kind = "returned"
             /\ ~result'.finished
             /\ Answers(result'.reply[1], "greeting")
             /\ candidate_data' = candidate_data]_vars

\* the first word of a respondent greeted: the name is awaited and the
\* word is not taken for it
C28_Witness ==
    /\ user_input = "Austin"
    /\ state = COLLECTING_INFO
    /\ awaiting_field = "name"
    /\ current_field_index = 0
    /\ candidate_data = <<>>
    /\ result.reply = <<"greeting">>

\* C29: when the seventh field (tech_stack) passes validation the state
\* becomes TechTransition in that call; as question generation may run
\* within the same call, the state after the call is TechTransition,
\* TechnicalQuestions or Ended, never CollectingInfo.
C29_LastFieldLeavesCollecting ==
    [][(state = COLLECTING_INFO /\ awaiting_field = "tech_stack" /\ Dispatched(user_input'))
          => /\ state' \in {TECH_TRANSITION, TECHNICAL_QUESTIONS, ENDED}
             /\ external'.generator = "idle" => state' = TECH_TRANSITION
             /\ "tech_stack" \in DOMAIN candidate_data'
             /\ Chars[candidate_data'["tech_stack"]] = StripChars(Chars[user_input'])
             /\ result'.kind = "returned"
             /\ ~result'.finished]_vars

\* the seven fields stored and the transition text sent, no question yet
C29_Witness ==
    /\ state = TECH_TRANSITION
    /\ DOMAIN candidate_data = {info_fields[i] : i \in 1..7}
    /\ candidate_data["tech_stack"] = user_input
    /\ awaiting_field = None
    /\ current_questions = <<>>
    /\ Len(result.reply) = 2

\* the questions the service replied with, when they are 3 to 5 strings
Replied(gen) == [i \in 1..Len(gen.items) |-> gen.items[i].s]

\* C30: in state TechTransition, when the generator returns 3 to 5
\* questions the list is stored as the question set, the question index is
\* 0, the state becomes TechnicalQuestions and the reply contains the first
\* question of the list, with finished = false.
C30_QuestionsTakenUp ==
    [][(state = TECH_TRANSITION /\ Dispatched(user_input')
           /\ external'.generator = "called" /\ ~GenerationFails(external'.gen))
          => /\ current_questions' = Replied(external'.gen)
             /\ Len(current_questions') \in 3..5
             /\ current_question_index' = 0
             /\ state' = TECHNICAL_QUESTIONS
             /\ result'.kind = "returned"
             /\ \E i \in 1..Len(result'.reply) : result'.reply[i] = current_questions'[1]
             /\ ~result'.finished
             /\ technical_responses' = technical_responses]_vars

\* the first of three questions asked, none answered
C30_Witness ==
    /\ state = TECHNICAL_QUESTIONS
    /\ external.generator = "called"
    /\ current_questions = <<"Q1", "Q2", "Q3">>
    /\ current_question_index = 0
    /\ result.reply = <<"Q1">>
    /\ technical_responses = <<>>

\* a question is answered and another one is left to ask
AnswerWithMoreLeft ==
    /\ state = TECHNICAL_QUESTIONS
    /\ Dispatched(user_input')
    /\ current_question_index + 1 < Len(current_questions)

\* C31: in state TechnicalQuestions with questions remaining, the call
\* records the utterance (trimmed, as process_message takes every
\* utterance) as the answer to the question at the current index, increases
\* the index by exactly one, replies with the question at the new index and
\* leaves the state, the profile and the question set unchanged.
C31_AnswerRecorded ==
    [][AnswerWithMoreLeft
          => /\ DOMAIN technical_responses' = DOMAIN technical_responses \cup {current_question_index}
             /\ technical_responses'[current_question_index] =
                   [question |-> current_questions[current_question_index + 1],
                    answer   |-> Trimmed[user_input']]
             /\ \A k \in DOMAIN technical_responses \ {current_question_index} :
                   technical_responses'[k] = technical_responses[k]
             /\ current_question_index' = current_question_index + 1
             /\ result'.kind = "returned"
             /\ ~result'.finished
             /\ result'.reply[Len(result'.reply)] = current_questions[current_question_index' + 1]
             /\ UNCHANGED <<state, candidate_data, current_questions>>]_vars

\* the second of three questions answered with a padded text, the third asked
C31_Witness ==
    /\ state = TECHNICAL_QUESTIONS
    /\ current_question_index = 2
    /\ user_input = " 7 "
    /\ DOMAIN technical_responses = {0, 1}
    /\ technical_responses[1] = [question |-> "Q2", answer |-> "7"]
    /\ result.reply[2] = "Q3"

\* the reply of this call shows the respondent the question of position i
Emits(i) ==
    /\ result'.kind = "returned"
    /\ \E k \in 1..Len(result'.reply) : result'.reply[k] = current_questions'[i + 1]

\* the QA log holds one entry for each position below the index and no
\* other, each with the question of its position
LogMatchesIndex ==
    /\ DOMAIN technical_responses = 0..(current_question_index - 1)
    /\ current_question_index <= Len(current_questions)
    /\ \A i \in DOMAIN technical_responses :
          /\ technical_responses[i].question = current_questions[i + 1]
          /\ DOMAIN technical_responses[i] = {"question", "answer"}

\* the question set, once taken up, is kept, and the question a step moves
\* the index to is shown in the reply of that step: whatever is answered
\* next was emitted before
EmittedBeforeAnswered ==
    /\ current_questions # <<>> => current_questions' = current_questions
    /\ (current_questions' # current_questions \/ current_question_index' # current_question_index)
          => (current_question_index' < Len(current_questions') => Emits(current_question_index'))
    /\ \A i \in DOMAIN technical_responses' \ DOMAIN technical_responses :
          i = current_question_index

\* a recorded answer stays as it was recorded
NeverOverwritten ==
    \A i \in DOMAIN technical_responses :
        i \in DOMAIN technical_responses' /\ technical_responses'[i] = technical_responses[i]

\* C32: in every reachable state the QA log holds exactly one entry for
\* each position 0..index-1 and none for any other position; the entry at
\* position i carries the i-th question of the question set, which had been
\* emitted to the respondent before the answer was recorded, and a recorded
\* answer is never overwritten.
C32_LogFollowsQuestions ==
    []LogMatchesIndex /\ [][EmittedBeforeAnswered /\ NeverOverwritten]_vars

\* two answers on record, to the first two questions, after a blank line
\* was turned away
C32_Witness ==
    /\ state = TECHNICAL_QUESTIONS
    /\ current_question_index = 2
    /\ technical_responses[0].question = "Q1"
    /\ technical_responses[1].question = "Q2"
    /\ user_input = " "

\* C33: in state Ended every utterance that contains no exit keyword
\* returns finished = false and leaves the state Ended and the profile and
\* the QA log unchanged; the session leaves Ended only through an exit
\* keyword.
C33_EndedUntilExit ==
    [][state = ENDED
          => /\ ~HasExitKeyword[user_input']
                => /\ result'.kind = "returned"
                   /\ ~result'.finished
                   /\ state' = ENDED
                   /\ UNCHANGED <<candidate_data, technical_responses>>
             /\ state' # ENDED => (HasExitKeyword[user_input'] /\ state' = CLOSED)]_vars

\* the reminder sent a second time: the session is still Ended with its
\* three answers
C33_Witness ==
    /\ state = ENDED
    /\ user_input = " 7 "
    /\ result.reply = <<"end_conversation">>
    /\ technical_responses[2].answer = "Austin"
    /\ DOMAIN technical_responses = {0, 1, 2}

\* the rule of field f applied to the text v as it stands, blanks included
RuleOnText(f, v, ext) ==
    CASE f = "email"            -> EmailSyntax(Chars[v]) /\ ext.email = "deliverable"
      [] f = "phone_number"     -> PhoneSyntax(Chars[v])
      [] f = "current_location" -> ext.geocoder = "up" /\ v \in KnownPlaces
      [] f = "experience_years" -> LET y == ParseChars(Chars[v])
                                   IN  y.ok /\ 0 <= y.n /\ y.n <= 50
      [] OTHER                  -> v # ""

NoBlanksAround(v) == Chars[v] # <<>> => (Chars[v][1] # " " /\ Chars[v][Len(Chars[v])] # " ")

StoredTrimmed == \A f \in DOMAIN candidate_data : NoBlanksAround(candidate_data[f])

ValidatedTrimmed ==
    (state = COLLECTING_INFO /\ Dispatched(user_input') /\ Answered(external'))
        => /\ (awaiting_field \in DOMAIN candidate_data')
                  <=> RuleOnText(awaiting_field, Trimmed[user_input'], external')
           /\ awaiting_field \in DOMAIN candidate_data'
                  => candidate_data'[awaiting_field] = StoredForm(awaiting_field, user_input')

\* C34: every value stored in the profile is the utterance with leading and
\* trailing whitespace removed (for experience_years, the decimal text of
\* the parsed integer), and validation is applied to the trimmed value,
\* never to the untrimmed utterance.
C34_TrimmedThenValidated == []StoredTrimmed /\ [][ValidatedTrimmed]_vars

\* an address typed with blanks around it was accepted and is kept without
\* them, although the address pattern rejects the utterance as typed
C34_Witness ==
    /\ user_input = " a@b.co "
    /\ ~RuleOnText("email", user_input, external)
    /\ "email" \in DOMAIN candidate_data
    /\ candidate_data["email"] = "a@b.co"
    /\ awaiting_field = "phone_number"

\* "07" was accepted as years of experience and is kept as "7"
C34_CanonicalYears ==
    /\ user_input = "07"
    /\ "experience_years" \in DOMAIN candidate_data
    /\ candidate_data["experience_years"] = "7"

\* C35: the experience bracket embedded in the question-generation
\* instruction is junior for experience_years < 2, mid-level for
\* 2 <= experience_years <= 4 and senior for experience_years >= 5, for
\* every integer in 0..50.
C35_ExperienceBracket ==
    unit.op = "prompt"
        => LET y == unit.prompt.experience_years
               d == unit.prompt.difficulty
           IN  /\ y \in 0..50
               /\ y \in 0..1  => d = "junior"
               /\ y \in 2..4  => d = "mid-level"
               /\ y \in 5..50 => d = "senior"

\* the instruction for five years of experience says senior
C35_Witness ==
    /\ unit.op = "prompt"
    /\ unit.prompt.experience_years = 5
    /\ unit.prompt.difficulty = "senior"
    /\ unit.prompt.tech_stack = "Python, PostgreSQL"

\* the boundary between junior and mid-level is tried on either side
C35_Boundaries ==
    /\ unit.op = "prompt"
    /\ \/ unit.prompt.experience_years = 1 /\ unit.prompt.difficulty = "junior"
       \/ unit.prompt.experience_years = 2 /\ unit.prompt.difficulty = "mid-level"

\* the place of a state in the order of the conversation
StateOrder ==
    <<GREETING, COLLECTING_INFO, TECH_TRANSITION, TECHNICAL_QUESTIONS, ENDED, CLOSED>>

Rank(s) == CHOOSE i \in 1..Len(StateOrder) : StateOrder[i] = s

\* C36: over any sequence of process_message calls the session state never
\* moves backward in the order Greeting < CollectingInfo < TechTransition <
\* TechnicalQuestions < Ended < Closed, and once Closed it stays Closed for
\* every later call.
C36_NeverBackward ==
    [][/\ Rank(state) <= Rank(state')
       /\ state = CLOSED => state' = CLOSED]_vars

\* a call made after the session closed, with answers given before: the
\* session is still closed
C36_Witness ==
    /\ state = CLOSED
    /\ exit_calls = 1
    /\ ~HasExitKeyword[user_input]
    /\ result.reply = <<"fallback">>
    /\ DOMAIN technical_responses # {}

\* the call returned a pair whose flag is set
ReturnedFinished == result.kind = "returned" /\ result.finished

C37_ExitSetsFlag ==
    /\ user_input = "Backend Engineer"
    /\ ReturnedFinished
    /\ state = CLOSED

\* the text v could be kept: it is not empty and holds neither an exit
\* keyword nor a reveal term, whatever the case of its letters
Keepable(v) == v # "" /\ ~HasExitKeyword[v] /\ ~HasRevealTerm[v]

\* C38: in every reachable state no value stored in the profile and no
\* answer recorded in the QA log contains an exit keyword (quit, exit, bye,
\* goodbye, stop, cancel, end) or a reveal term as a case-insensitive
\* substring, and none is empty.
C38_NothingReservedStored ==
    /\ \A f \in DOMAIN candidate_data : Keepable(candidate_data[f])
    /\ \A i \in DOMAIN technical_responses : Keepable(technical_responses[i].answer)

\* the session closed on "Backend Engineer" while a position was awaited,
\* after "Answer Key" had been turned away: neither was stored
C38_Witness ==
    /\ state = CLOSED
    /\ user_input = "Backend Engineer"
    /\ awaiting_field = "desired_positions"
    /\ "desired_positions" \notin DOMAIN candidate_data
    /\ candidate_data["experience_years"] = "7"

\* a full profile and three answers, all kept
C38_FullRecord ==
    /\ DOMAIN candidate_data = {info_fields[i] : i \in 1..Len(info_fields)}
    /\ DOMAIN technical_responses = {0, 1, 2}

\* C39: the utterance that triggers the Greeting transition and the
\* utterance received while the session is in state TechTransition are
\* consumed without being stored: neither is written to the profile nor
\* recorded as an answer in the QA log.
C39_ConsumedUnstored ==
    [][(state \in {GREETING, TECH_TRANSITION} /\ Dispatched(user_input'))
          => /\ candidate_data' = candidate_data
             /\ technical_responses' = technical_responses]_vars

\* the greeting was just triggered by "Austin": the profile is empty and the
\* name is awaited
C39_Witness ==
    /\ state = COLLECTING_INFO
    /\ user_input = "Austin"
    /\ result.reply = <<"greeting">>
    /\ awaiting_field = "name"
    /\ DOMAIN candidate_data = {}
    /\ DOMAIN technical_responses = {}

\* the utterance sent in state TechTransition started the questions: the
\* first question was returned and no answer is recorded
C39_TransitionConsumed ==
    /\ state = TECHNICAL_QUESTIONS
    /\ user_input = " 7 "
    /\ current_question_index = 0
    /\ result.reply = <<"Q1">>
    /\ DOMAIN technical_responses = {}

\* C40: if the respondent sends only utterances that contain no exit
\* keyword and are not redirected, every field eventually receives a valid
\* value and the generator eventually succeeds, then the session eventually
\* reaches state Ended; and from any state, sending an exit keyword reaches
\* Closed in that single call.
C40_EndedOrClosed ==
    /\ <>(state = ENDED \/ exit_calls > 0)
    /\ [][HasExitKeyword[user_input'] => state' = CLOSED]_vars

\* a session that answered every question without an exit: Ended, nothing
\* saved
C40_Witness ==
    /\ state = ENDED
    /\ exit_calls = 0
    /\ save_calls = 0
    /\ current_question_index = Len(current_questions)
    /\ Len(current_questions) = 3
    /\ DOMAIN candidate_data = {info_fields[i] : i \in 1..Len(info_fields)}

\* an exit keyword sent while the questions are being answered closed the
\* session in that call
C40_ExitMidway ==
    /\ state = CLOSED
    /\ exit_calls = 1
    /\ user_input = "Backend Engineer"
    /\ current_question_index = 1
    /\ Len(current_questions) = 3

====
